---- MODULE Spec2Model ----
(***************************************************************************)
(* Model of the STM32 library collection's non-allocating callback         *)
(* machinery: __InplaceFunction (a fixed-buffer type-erased callable),     *)
(* __CallbackManager (static per-tag callback slots with HAL trampolines)  *)
(* and the non-blocking Transmit / ReceiveTo of the Uart wrapper; and of   *)
(* its stateless utilities: the table-driven Crc16, __ClampMessageLength   *)
(* and the median filter of Adc::Get; of a callable that registers or      *)
(* unregisters callbacks for its own slot while a trampoline runs it; and  *)
(* of the drivers built on the hardware timer: the busy wait of            *)
(* Timer::SleepFor and the pin writes of l298n_linear_motor.               *)
(***************************************************************************)
EXTENDS Integers, FiniteSets, Sequences, TLC

\* Largest number of times one callable object is called in an explored behaviour.
MaxRuns == 2

(***************************************************************************)
(* Callables, objects and the values of their fields.                      *)
(***************************************************************************)

\* The user callables (closures).  "f" and "g" are closures of two different
\* lambda expressions, hence of two different types.
Callables == {"f", "g"}

\* std::decay_t<F> of a callable: the type the thunks are instantiated for.
DecayedF(c) == IF c = "f" THEN "LambdaF" ELSE "LambdaG"

\* A null function pointer.
Null == "nullptr"

\* A buffer that holds no live object.
NoObj == <<"none", 0>>

\* A live callable object <<c, n>>: closure c, which has been called n times
\* (its observable effect: it counts its own calls, as a mutable lambda can).
CallableObjects == Callables \X (0..MaxRuns)

\* What m_storage can hold.
Storage == {NoObj} \cup CallableObjects

\* Calling the callable object directly: obj().
Call(obj) == <<obj[1], obj[2] + 1>>

\* The user-level __InplaceFunction objects, the temporary a call site
\* materialises for a CallbackT&& parameter, and the static slots of
\* __CallbackManager<HandleT, UniqueTagT>, one pair per unique tag.
Locals == {<<"local", "x">>, <<"local", "y">>}

Tmp == <<"local", "tmp">>

Tags == {"Tag1", "Tag2"}

ReceiveSlot(tag) == <<tag, "m_receive_complete_callback">>

TransmitSlot(tag) == <<tag, "m_transmit_complete_callback">>

Slots == {ReceiveSlot(t) : t \in Tags} \cup {TransmitSlot(t) : t \in Tags}

Objects == Locals \cup {Tmp} \cup Slots

\* The data members of a default-constructed __InplaceFunction.
EmptyFunction ==
    [m_storage |-> NoObj, m_invoke |-> Null, m_destroy |-> Null, m_move |-> Null]

(***************************************************************************)
(* The three type-erased thunks.  Each is instantiated for one type T and  *)
(* casts the buffer to T*: it is defined only when the buffer holds a live *)
(* object of type T.  Otherwise the call is undefined behaviour, modelled  *)
(* as every outcome.  All operations return the SET of possible results.   *)
(***************************************************************************)
Live(T, stor) == stor[1] \in Callables /\ DecayedF(stor[1]) = T

\* m_invoke: the buffer after (*static_cast<DecayedF*>(ptr))().
InvokeThunk(T, stor) ==
    IF Live(T, stor) THEN {Call(stor)} ELSE Storage

\* m_destroy: the buffer after destroy_at.
DestroyThunk(T, stor) ==
    IF Live(T, stor) THEN {NoObj} ELSE Storage

\* A faulty m_move that destroys the source without constructing the destination.
MoveThunkLosesObject(T, dst, src) ==
    IF Live(T, src) THEN {<<NoObj, NoObj>>} ELSE Storage \X Storage

\* m_move: <<destination buffer, source buffer>> after the relocation.
MoveThunk(T, dst, src) ==
    IF Live(T, src) THEN {<<src, NoObj>>} ELSE Storage \X Storage

(***************************************************************************)
(* __InplaceFunction.  F maps every object to its data members.            *)
(***************************************************************************)

\* explicit operator bool
IsSet(o) == o.m_invoke # Null

\* A faulty Reset() that destroys the callable but leaves m_invoke set.
ResetKeepInvoke(F, this) ==
    {[F EXCEPT ![this] = [m_storage |-> s, m_invoke |-> F[this].m_invoke,
                          m_destroy |-> Null, m_move |-> Null]] :
        s \in IF F[this].m_destroy # Null
              THEN DestroyThunk(F[this].m_destroy, F[this].m_storage)
              ELSE {F[this].m_storage}}

\* Reset()
Reset(F, this) ==
    {[F EXCEPT ![this] = [m_storage |-> s, m_invoke |-> Null,
                          m_destroy |-> Null, m_move |-> Null]] :
        s \in IF F[this].m_destroy # Null
              THEN DestroyThunk(F[this].m_destroy, F[this].m_storage)
              ELSE {F[this].m_storage}}

\* __InplaceFunction() and __InplaceFunction(std::nullptr_t)
DefaultConstruct(F, this) == {[F EXCEPT ![this] = EmptyFunction]}

NullptrConstruct(F, this) == DefaultConstruct(F, this)

\* A faulty constructor that does not record the invoke thunk.
ConstructFromNoInvoke(F, this, c) ==
    {[F EXCEPT ![this] = [m_storage |-> <<c, 0>>, m_invoke |-> Null,
                          m_destroy |-> DecayedF(c), m_move |-> DecayedF(c)]]}

\* __InplaceFunction(F&& f): construct_at into the buffer, record the thunks.
ConstructFrom(F, this, c) ==
    {[F EXCEPT ![this] = [m_storage |-> <<c, 0>>, m_invoke |-> DecayedF(c),
                          m_destroy |-> DecayedF(c), m_move |-> DecayedF(c)]]}

\* A faulty destructor that does not call Reset().
DestructorWithoutReset(F, this) == {F}

\* ~__InplaceFunction()
Destructor(F, this) == Reset(F, this)

\* A faulty relocation that does not null the pointers of the source.
RelocateKeepSource(F, this, other) ==
    {[F EXCEPT ![this] = [m_storage |-> st[1], m_invoke |-> F[other].m_invoke,
                          m_destroy |-> F[other].m_destroy,
                          m_move |-> F[other].m_move],
               ![other] = [F[other] EXCEPT !.m_storage = st[2]]] :
        st \in IF F[other].m_move # Null
               THEN MoveThunk(F[other].m_move, F[this].m_storage, F[other].m_storage)
               ELSE {<<F[this].m_storage, F[other].m_storage>>}}

\* The body shared by the move constructor and the move assignment: copy the
\* three pointers, relocate through m_move when it is set, null the source.
Relocate(F, this, other) ==
    {[F EXCEPT ![this] = [m_storage |-> st[1], m_invoke |-> F[other].m_invoke,
                          m_destroy |-> F[other].m_destroy,
                          m_move |-> F[other].m_move],
               ![other] = [m_storage |-> st[2], m_invoke |-> Null,
                           m_destroy |-> Null, m_move |-> Null]] :
        st \in IF F[other].m_move # Null
               THEN MoveThunk(F[other].m_move, F[this].m_storage, F[other].m_storage)
               ELSE {<<F[this].m_storage, F[other].m_storage>>}}

\* __InplaceFunction(__InplaceFunction&& other): the new object's buffer is
\* value-initialised, then the callable is relocated into it.
MoveConstruct(F, this, other) ==
    Relocate([F EXCEPT ![this] = EmptyFunction], this, other)

\* A faulty move assignment without the this != &other test.
MoveAssignUnchecked(F, this, other) ==
    UNION {Relocate(G, this, other) : G \in Reset(F, this)}

\* operator=(__InplaceFunction&& other)
MoveAssign(F, this, other) ==
    IF this # other
    THEN UNION {Relocate(G, this, other) : G \in Reset(F, this)}
    ELSE {F}

\* operator=(std::nullptr_t)
AssignNullptr(F, this) == Reset(F, this)

\* operator=(F&& f): Reset(), then move-assign from a temporary constructed
\* from f; the temporary is destroyed at the end of the statement.
AssignFrom(F, this, c) ==
    UNION {UNION {UNION {Destructor(F3, Tmp) :
                         F3 \in MoveAssign(F2, this, Tmp)} :
                  F2 \in ConstructFrom(F1, Tmp, c)} :
           F1 \in Reset(F, this)}

\* A faulty operator() that calls through m_invoke without testing it.
InvokeUnchecked(o) == InvokeThunk(o.m_invoke, o.m_storage)

\* operator()(): the buffer after running the held callable, if any.
Invoke(o) ==
    IF o.m_invoke # Null THEN InvokeThunk(o.m_invoke, o.m_storage) ELSE {o.m_storage}

\* F after operator() on object this.
InvokeAt(F, this) == {[F EXCEPT ![this].m_storage = st] : st \in Invoke(F[this])}

(***************************************************************************)
(* __CallbackManager<HandleT, UniqueTagT>: two static slots per tag.       *)
(* cb is the object the CallbackT&& parameter is bound to.                 *)
(***************************************************************************)
\* RegisterReceiveCompleteCallback(CallbackT&& callback)
RegisterReceiveCompleteCallback(F, tag, cb) == MoveAssign(F, ReceiveSlot(tag), cb)

\* A faulty registration that keeps a callback that is already pending.
RegisterTransmitKeepFirst(F, tag, cb) ==
    IF IsSet(F[TransmitSlot(tag)]) THEN {F} ELSE MoveAssign(F, TransmitSlot(tag), cb)

\* RegisterTransmitCompleteCallback(CallbackT&& callback)
RegisterTransmitCompleteCallback(F, tag, cb) == MoveAssign(F, TransmitSlot(tag), cb)

\* A faulty receive trampoline that clears the slot after the call.
ReceiveCompleteConsumes(F, tag) ==
    IF IsSet(F[ReceiveSlot(tag)])
    THEN UNION {Reset(G, ReceiveSlot(tag)) : G \in InvokeAt(F, ReceiveSlot(tag))}
    ELSE {F}

\* ReceiveCompleteCallback(HandleT*): the receive trampoline.
ReceiveCompleteCallback(F, tag) ==
    IF IsSet(F[ReceiveSlot(tag)]) THEN InvokeAt(F, ReceiveSlot(tag)) ELSE {F}

\* A faulty transmit trampoline that tests and calls the receive slot.
TransmitCompleteWrongSlot(F, tag) ==
    IF IsSet(F[ReceiveSlot(tag)]) THEN InvokeAt(F, ReceiveSlot(tag)) ELSE {F}

\* TransmitCompleteCallback(HandleT*): the transmit trampoline.
TransmitCompleteCallback(F, tag) ==
    IF IsSet(F[TransmitSlot(tag)]) THEN InvokeAt(F, TransmitSlot(tag)) ELSE {F}

\* A faulty UnRegisterCallbacks() that clears the receive slot only.
UnRegisterReceiveOnly(F, tag) == AssignNullptr(F, ReceiveSlot(tag))

\* UnRegisterCallbacks(): both slots are assigned nullptr.
UnRegisterCallbacks(F, tag) ==
    UNION {AssignNullptr(G, TransmitSlot(tag)) :
           G \in AssignNullptr(F, ReceiveSlot(tag))}

(***************************************************************************)
(* The Uart wrapper and the HAL it drives.                                 *)
(***************************************************************************)

\* The wrapper instances; each is instantiated with its own STM32_UNIQUE_TAG
\* and owns its own UART handle.
Uarts == {"uart1"}

\* Two instances declared with one alias of a STM32_UNIQUE_TAG ("uart1" and
\* "uart2" share Tag1), the documented incorrect usage.
AliasedUarts == {"uart1", "uart2"}

AllUarts == Uarts \cup AliasedUarts

\* A different tag for each instance, as if no alias were shared.
UniqueTagPerInstance(u) == IF u = "uart1" THEN "Tag1" ELSE "Tag2"

UniqueTagT(u) == IF u \in AliasedUarts THEN "Tag1" ELSE "Tag2"

\* The two completion events of a UART handle.
TxCplt == "HAL_UART_TX_COMPLETE_CB_ID"

RxCplt == "HAL_UART_RX_COMPLETE_CB_ID"

Events == {TxCplt, RxCplt}

\* No asynchronous operation is in flight.
NoOp == "none"

\* The mainline is not inside a non-blocking call.
Idle == <<"idle", "-", "-">>

(***************************************************************************)
(* Crc16: unsigned arithmetic of the widths the code uses.                 *)
(***************************************************************************)

\* The longest input besides the check string, and the number of chunks a
\* streaming computation is fed in.
MaxLen == 2

MaxChunks == 2

\* a ^ b, bit by bit from the least significant one
BitXor(a, b) ==
    LET xor[x \in Nat, y \in Nat] ==
            IF x = 0 THEN y
            ELSE IF y = 0 THEN x
            ELSE ((x + y) % 2) + 2 * xor[x \div 2, y \div 2]
    IN  xor[a, b]

\* a & b
BitAnd(a, b) ==
    LET and[x \in Nat, y \in Nat] ==
            IF x = 0 \/ y = 0 THEN 0
            ELSE ((x % 2) * (y % 2)) + 2 * and[x \div 2, y \div 2]
    IN  and[a, b]

\* a | b
BitOr(a, b) == a + b - BitAnd(a, b)

\* a << n and a >> n, before any narrowing cast
Shl(a, n) == a * (2 ^ n)

Shr(a, n) == a \div (2 ^ n)

\* static_cast<std::uint8_t> and static_cast<std::uint16_t>
Uint8(x) == x % 256

Uint16(x) == x % 65536

\* A faulty __Reflect8 that only swaps the two nibbles.
Reflect8NibblesOnly(value) == Uint8(BitOr(Shl(value, 4), Shr(value, 4)))

\* __Reflect8(value)
Reflect8(value) ==
    LET v1 == Uint8(BitOr(Shl(BitAnd(value, 85), 1), Shr(BitAnd(value, 170), 1)))
        v2 == Uint8(BitOr(Shl(BitAnd(v1, 51), 2), Shr(BitAnd(v1, 204), 2)))
    IN  Uint8(BitOr(Shl(v2, 4), Shr(v2, 4)))

\* A faulty __Reflect16 that only swaps the two bytes.
Reflect16BytesOnly(value) == Uint16(BitOr(Shl(value, 8), Shr(value, 8)))

\* __Reflect16(value)
Reflect16(value) ==
    LET v1 == Uint16(BitOr(Shl(BitAnd(value, 21845), 1), Shr(BitAnd(value, 43690), 1)))
        v2 == Uint16(BitOr(Shl(BitAnd(v1, 13107), 2), Shr(BitAnd(v1, 52428), 2)))
        v3 == Uint16(BitOr(Shl(BitAnd(v2, 3855), 4), Shr(BitAnd(v2, 61680), 4)))
    IN  Uint16(BitOr(Shl(v3, 8), Shr(v3, 8)))

\* The inner loop of __GenerateCrc16Table, reflected branch: loop[c, j] is the
\* final crc when iteration j starts with crc = c.
\* reflected stands for the constant expression __Reflect16(PolynomialV).
TableLoopReflected(c0, PolynomialV) ==
    LET loop[c \in Nat, j \in Nat, reflected \in Nat] ==
            IF j >= 8 THEN c
            ELSE loop[IF BitAnd(c, 1) # 0
                      THEN Uint16(BitXor(Shr(c, 1), reflected))
                      ELSE Shr(c, 1),
                      j + 1, reflected]
    IN  loop[c0, 0, Reflect16(PolynomialV)]

\* A faulty non-reflected inner loop that makes seven steps instead of eight.
TableLoopSevenSteps(c0, PolynomialV) ==
    LET loop[c \in Nat, j \in Nat] ==
            IF j >= 7 THEN c
            ELSE loop[IF BitAnd(c, 32768) # 0
                      THEN Uint16(BitXor(Shl(c, 1), PolynomialV))
                      ELSE Uint16(Shl(c, 1)),
                      j + 1]
    IN  loop[c0, 0]

\* The inner loop of __GenerateCrc16Table, non-reflected branch.
TableLoopNormal(c0, PolynomialV) ==
    LET loop[c \in Nat, j \in Nat] ==
            IF j >= 8 THEN c
            ELSE loop[IF BitAnd(c, 32768) # 0
                      THEN Uint16(BitXor(Shl(c, 1), PolynomialV))
                      ELSE Uint16(Shl(c, 1)),
                      j + 1]
    IN  loop[c0, 0]

\* A faulty table generator whose non-reflected branch starts from i, not i << 8.
GenerateTableUnshifted(PolynomialV, ReflectInputV) ==
    [i \in 0..255 |->
        IF ReflectInputV
        THEN TableLoopReflected(Uint16(i), PolynomialV)
        ELSE TableLoopNormal(Uint16(i), PolynomialV)]

\* __GenerateCrc16Table<PolynomialV, ReflectInputV>()
GenerateCrc16Table(PolynomialV, ReflectInputV) ==
    [i \in 0..255 |->
        IF ReflectInputV
        THEN TableLoopReflected(Uint16(i), PolynomialV)
        ELSE TableLoopNormal(Uint16(Shl(i, 8)), PolynomialV)]

\* A faulty s_table that is always generated by the non-reflected branch.
TableNormalOnly(cfg) == GenerateCrc16Table(cfg.polynomial, FALSE)

\* Crc16::s_table of the configuration cfg.
s_table(cfg) == GenerateCrc16Table(cfg.polynomial, cfg.reflect_input)

\* The Crc16 instantiation with the given template arguments.
Crc16(PolynomialV, InitialValueV, FinalXorV, ReflectInputV, ReflectOutputV) ==
    [polynomial |-> PolynomialV, initial_value |-> InitialValueV,
     final_xor |-> FinalXorV, reflect_input |-> ReflectInputV,
     reflect_output |-> ReflectOutputV]

\* The predefined variants.
Crc16CcittFalse == Crc16(4129, 65535, 0, FALSE, FALSE)

Crc16Xmodem == Crc16(4129, 0, 0, FALSE, FALSE)

Crc16Kermit == Crc16(4129, 0, 0, TRUE, TRUE)

Crc16X25 == Crc16(4129, 65535, 65535, TRUE, TRUE)

Crc16Modbus == Crc16(32773, 65535, 0, TRUE, TRUE)

Crc16Usb == Crc16(32773, 65535, 65535, TRUE, TRUE)

Crc16Ibm == Crc16(32773, 0, 0, TRUE, TRUE)

Crc16Dnp == Crc16(15717, 0, 65535, TRUE, TRUE)

PredefinedVariants ==
    {Crc16CcittFalse, Crc16Xmodem, Crc16Kermit, Crc16X25,
     Crc16Modbus, Crc16Usb, Crc16Ibm, Crc16Dnp}

\* User instantiations: both polynomials, a palindromic (0xFFFF) and a
\* non-palindromic (0x1D0F) initial value, every combination of the flags.
CustomVariants ==
    {Crc16(p, i, x, ri, ro) :
        p \in {4129, 32773}, i \in {65535, 7439}, x \in {0, 65535},
        ri \in BOOLEAN, ro \in BOOLEAN}

Crc16Configs == PredefinedVariants \cup CustomVariants

\* The input bytes, and the inputs: every sequence of at most MaxLen of them
\* and the 9 ASCII bytes "123456789".
Bytes == {0, 49, 255}

CheckInput == <<49, 50, 51, 52, 53, 54, 55, 56, 57>>

Crc16Inputs == UNION {[1..n -> Bytes] : n \in 0..MaxLen} \cup {CheckInput}

\* The loop of Calculate(data, length): loop[c, n, i] is the result when
\* iteration i starts with crc = c after n accesses to s_table (the count of
\* accesses is not program state).
CalculateLoop(cfg, c0, data) ==
    LET loop[c \in Nat, n \in Nat, i \in Nat] ==
            IF i >= Len(data) THEN [crc |-> c, lookups |-> n]
            ELSE IF cfg.reflect_input
                 THEN loop[Uint16(BitXor(Shr(c, 8),
                               s_table(cfg)[Uint8(BitXor(c, data[i + 1]))])),
                           n + 1, i + 1]
                 ELSE loop[Uint16(BitXor(Shl(c, 8),
                               s_table(cfg)[Uint8(BitXor(Shr(c, 8), data[i + 1]))])),
                           n + 1, i + 1]
    IN  loop[c0, 0, 0]

\* The end of Calculate: the output reflection and the final XOR.
CalculateEnd(cfg, r) ==
    [crc |-> Uint16(BitXor(IF cfg.reflect_output # cfg.reflect_input
                           THEN Reflect16(r.crc) ELSE r.crc,
                           cfg.final_xor)),
     lookups |-> r.lookups]

\* A faulty Calculate whose register starts from zero.
CalculateRunFromZero(cfg, data) == CalculateEnd(cfg, CalculateLoop(cfg, 0, data))

\* Calculate(data, length): the returned value and the s_table accesses made.
CalculateRun(cfg, data) ==
    CalculateEnd(cfg, CalculateLoop(cfg, cfg.initial_value, data))

\* Calculate(data)
Calculate(cfg, data) == CalculateRun(cfg, data).crc

\* Update(crc, data): loop[c, i] is the result when the range-for reaches
\* the byte of index i with crc = c.
Update(cfg, c0, data) ==
    LET loop[c \in Nat, i \in Nat] ==
            IF i >= Len(data) THEN c
            ELSE IF cfg.reflect_input
                 THEN loop[Uint16(BitXor(Shr(c, 8),
                               s_table(cfg)[Uint8(BitXor(c, data[i + 1]))])),
                           i + 1]
                 ELSE loop[Uint16(BitXor(Shl(c, 8),
                               s_table(cfg)[Uint8(BitXor(Shr(c, 8), data[i + 1]))])),
                           i + 1]
    IN  loop[c0, 0]

\* A faulty Finalize that leaves out the final XOR.
FinalizeWithoutXor(cfg, c) ==
    IF cfg.reflect_output # cfg.reflect_input THEN Reflect16(c) ELSE c

\* Finalize(crc)
Finalize(cfg, c) ==
    Uint16(BitXor(IF cfg.reflect_output # cfg.reflect_input THEN Reflect16(c) ELSE c,
                  cfg.final_xor))

\* Init()
Crc16Init(cfg) == cfg.initial_value

\* No Crc16 call is under way.
NoCrcCall == [stage |-> "none"]

(***************************************************************************)
(* __ClampMessageLength<TargetT>(size).  TargetT is given by its width in  *)
(* bits; size is a std::size_t, which is wider than every TargetT used.    *)
(***************************************************************************)

\* How far around each boundary the sizes are taken.
SizeSpread == 3

\* std::uint8_t and std::uint16_t (the HAL's length type).
UnsignedTargets == {8, 16}

\* std::numeric_limits<TargetT>::max()
NumericLimitsMax(TargetT) == (2 ^ TargetT) - 1

\* std::min(a, b)
StdMin(a, b) == IF b < a THEN b ELSE a

\* A faulty clamp that only casts, so that large sizes wrap.
ClampByCast(TargetT, size) == size % (2 ^ TargetT)

\* __ClampMessageLength<TargetT>(size)
ClampMessageLength(TargetT, size) ==
    StdMin(size, NumericLimitsMax(TargetT)) % (2 ^ TargetT)

\* The sizes: small ones and the neighbourhoods of 2^8, 2^16, 2^17 and 2^24.
ClampSizes ==
    (0..SizeSpread)
    \cup UNION {((2 ^ e) - SizeSpread)..((2 ^ e) + SizeSpread) : e \in {8, 16, 17, 24}}

\* No __ClampMessageLength call has been made.
NoClampCall == [done |-> FALSE]

(***************************************************************************)
(* Adc<AdcConfigT>::Get and the HAL calls it makes.                        *)
(***************************************************************************)

\* AdcConfig<AdcOutputMax<100>, Resolution12Bit, AdcMedianFilterSize<n>, ...>
\* for the sizes 1, 3 and 5.
AdcConfig(n) ==
    [min_value |-> 0, range_size |-> 100, resolution |-> 4095, MedianFilterSize |-> n]

AdcConfigs == {AdcConfig(n) : n \in {1, 3, 5}}

\* What HAL_ADC_Start and HAL_ADC_PollForConversion return, and what
\* HAL_ADC_GetValue reads after a conversion.
StartStatuses == {"HAL_OK", "HAL_ERROR", "HAL_BUSY"}

PollStatuses == {"HAL_OK", "HAL_ERROR", "HAL_TIMEOUT"}

RawValues == {100, 2000, 4095}

\* ConvertToOutput(adc_value): std::round of the scaled value (its argument is
\* never negative, so half rounds up), plus min_value.
ConvertToOutput(cfg, adc_value) ==
    ((2 * adc_value * cfg.range_size + cfg.resolution) \div (2 * cfg.resolution))
        + cfg.min_value

RECURSIVE Insert(_, _)
\* v put in its place in the ascending sequence s.
Insert(s, v) ==
    IF s = << >> THEN <<v>>
    ELSE IF v <= Head(s) THEN <<v>> \o s
    ELSE <<Head(s)>> \o Insert(Tail(s), v)

RECURSIVE Sorted(_)
Sorted(s) == IF s = << >> THEN << >> ELSE Insert(Sorted(Tail(s)), Head(s))

\* A faulty sort of the whole array, unfilled elements included.
SortWhole(values, filled_size) == Sorted(values)

\* std::ranges::sort(adc_values.begin(), adc_values.begin() + filled_size)
SortPrefix(values, filled_size) ==
    Sorted(SubSeq(values, 1, filled_size))
        \o SubSeq(values, filled_size + 1, Len(values))

\* No Adc::Get call is under way.
NoAdcCall == [at |-> "none"]

(***************************************************************************)
(* One step of the Crc16 loop and the reflection helpers, called on their  *)
(* own.                                                                    *)
(***************************************************************************)

\* One instantiation for each table: the three polynomials in use, each with
\* and without input reflection.
StepConfigs ==
    {Crc16Xmodem, Crc16Kermit, Crc16Ibm, Crc16Dnp, Crc16(32773, 0, 0, FALSE, FALSE),
     Crc16(15717, 0, 0, FALSE, FALSE)}

\* The register values a step is started from: zero, every single bit, and
\* three mixed values (0xFFFF, 0x1D0F, 0xA55A).
StepRegisters == {0, 65535, 7439, 42330} \cup {2 ^ k : k \in 0..15}

\* The input byte of a step: every std::uint8_t.
StepBytes == 0..255

\* No step has been called.
NoStepCall == [done |-> FALSE]

\* The arguments of __Reflect8 and of __Reflect16: every value of the type.
ReflectArguments(width) == 0..((2 ^ width) - 1)

\* No reflection helper has been called.
NoReflectCall == [at |-> "none"]

(***************************************************************************)
(* A trampoline executing the callable stored in its slot.                 *)
(***************************************************************************)

\* No trampoline is executing a callable.
NoRun == [at |-> "none"]

(***************************************************************************)
(* Timer<WorkingModeT>.  The hardware counter counts up to its auto-reload *)
(* value and wraps to zero.                                                *)
(***************************************************************************)

\* The auto-reload value of the counter.
AutoReload == 5

\* The durations SleepFor is called with: some the counter can reach and one
\* it cannot.
Durations == 0..(AutoReload + 1)

\* Get(): __HAL_TIM_GET_COUNTER
TimerGet(t) == t.counter

\* Set(time_point): __HAL_TIM_SET_COUNTER
TimerSet(t, time_point) == [t EXCEPT !.counter = time_point]

\* A faulty Reset() that leaves the counter as it is.
TimerResetKeepsCounter(t) == t

\* Reset()
TimerReset(t) == TimerSet(t, 0)

\* The condition of the loop of SleepFor and SleepUntil: Get() < time_point.
StillSleeping(t, time_point) == TimerGet(t) < time_point

\* SleepFor(duration) is entered.
SleepForEntry(t, duration) ==
    [t EXCEPT !.at = "reset", !.duration = duration, !.returned = FALSE]

\* No timer is in use.
NoTimer == [counter |-> 0, at |-> "idle", duration |-> 0, returned |-> FALSE]

(***************************************************************************)
(* l298n_linear_motor.  A member function is the sequence of its           *)
(* statements; a statement is a pin write or the call of SleepFor.         *)
(***************************************************************************)
Low == "GPIO_PIN_RESET"

High == "GPIO_PIN_SET"

GpioPinState == {Low, High}

\* pin->Write(pin_state)
Write(pin, pin_state) == <<"Write", pin, pin_state>>

\* m_us_timer->SleepFor(duration)
SleepForStatement == <<"SleepFor", "m_us_timer", "duration">>

\* stop()
stop == <<Write("m_forward_pin", Low), Write("m_backward_pin", Low)>>

\* backward()
backward == <<Write("m_forward_pin", Low), Write("m_backward_pin", High)>>

\* backward_for(duration)
backward_for ==
    <<Write("m_forward_pin", Low), Write("m_backward_pin", High), SleepForStatement>>
        \o stop

\* forward()
forward == <<Write("m_forward_pin", High), Write("m_backward_pin", Low)>>

\* A faulty forward_for that returns without stopping the motor.
forward_for_without_stop ==
    <<Write("m_forward_pin", High), Write("m_backward_pin", Low), SleepForStatement>>

\* forward_for(duration)
forward_for ==
    <<Write("m_forward_pin", High), Write("m_backward_pin", Low), SleepForStatement>>
        \o stop

\* The constructor and the destructor: both call stop().
l298n_constructor == stop

l298n_destructor == stop

\* The member functions a user calls on a constructed motor.
MotorFunctions == {"backward", "backward_for", "forward", "forward_for", "stop"}

\* The statements of a function.
MotorBody(f) ==
    CASE f = "backward" -> backward
      [] f = "backward_for" -> backward_for
      [] f = "forward" -> forward
      [] f = "forward_for" -> forward_for
      [] f = "stop" -> stop
      [] f = "constructor" -> l298n_constructor
      [] f = "destructor" -> l298n_destructor

\* The durations the timed functions are called with.
MotorDurations == {0, 1, AutoReload}

\* No motor driver is in use.
NoMotor ==
    [m_forward_pin |-> Low, m_backward_pin |-> Low, object |-> "none",
     call |-> "none", at |-> 0, duration |-> 0, last |-> "none"]

(***************************************************************************)
(* State.                                                                  *)
(*   fn         the data members of every __InplaceFunction object         *)
(*   hist       per object, the kind of the last operation that was        *)
(*              applied to it other than operator(): "dead" (no object),   *)
(*              "default", "nullptr", "callable", "moved_to", "moved_from",*)
(*              "self_moved", "reset"; for a slot "static" (untouched      *)
(*              since program start), "set" (stored into an empty slot),   *)
(*              "replaced" (stored over a pending callable), "cleared",    *)
(*              "undefined_call" (called through a non-null m_invoke while *)
(*              the buffer held no live object of its type)                *)
(*   registered per handle and event, whether the wrapper's trampoline is  *)
(*              registered with the HAL dispatch                           *)
(*   alive      the constructed wrapper instances                          *)
(*   inflight   per handle and event, the callable that was passed with    *)
(*              the asynchronous operation in flight, or NoOp              *)
(*   pc         the mainline's position: Idle, or <<event, uart, c>> after *)
(*              the Set of a non-blocking call and before its HAL start,   *)
(*              or <<statement, tag, c>> inside a registration that an     *)
(*              interrupt may preempt between statements                   *)
(*   crc        the Crc16 computation under way: configuration, data,      *)
(*              streaming accumulator and results                          *)
(*   len        the __ClampMessageLength call: target type, size, result   *)
(*   adc        the Adc::Get call under way: loop counter, samples, HAL    *)
(*              state and result                                           *)
(*   step       one per-byte step of the Crc16 loop: configuration,        *)
(*              register, byte and the register after the step             *)
(*   refl       a call of __Reflect8 or __Reflect16: width, argument,      *)
(*              result, and the result of reflecting the result            *)
(*   running    the callable object that a trampoline is executing, and    *)
(*              whether it is still intact in its slot                     *)
(*   timer      the hardware counter and the Timer::SleepFor call under    *)
(*              way                                                        *)
(*   motor      the two pins of an l298n_linear_motor and the position of  *)
(*              the member function under way                              *)
(***************************************************************************)
VARIABLES fn, hist, registered, alive, inflight, pc, crc, len, adc,
          step, refl, running, timer, motor

vars == <<fn, hist, registered, alive, inflight, pc, crc, len, adc,
          step, refl, running, timer, motor>>

uartVars == <<registered, alive, inflight, pc>>

\* The calls of the stateless utilities (Crc16, __ClampMessageLength, Adc::Get).
pureVars == <<crc, len, adc, step, refl>>

\* The callable a trampoline is executing, the timer and the motor driver.
driverVars == <<running, timer, motor>>

\* Nothing of these is in use.
DriverInit ==
    /\ running = NoRun
    /\ timer = NoTimer
    /\ motor = NoMotor

\* The callback machinery at program start.
CallbackInit ==
    /\ fn = [o \in Objects |-> EmptyFunction]
    /\ hist = [o \in Objects |-> IF o \in Slots THEN "static" ELSE "dead"]
    /\ registered = [k \in AllUarts \X Events |-> FALSE]
    /\ alive = {}
    /\ inflight = [k \in AllUarts \X Events |-> NoOp]
    /\ pc = Idle

Init ==
    /\ CallbackInit
    /\ DriverInit
    /\ crc = NoCrcCall
    /\ len = NoClampCall
    /\ adc = NoAdcCall
    /\ step = NoStepCall
    /\ refl = NoReflectCall

\* The object exists.
Exists(o) == hist[o] # "dead"

\* The callable object held by o may be called once more within the bound.
MayRun(o) == fn[o].m_storage[2] < MaxRuns

(***************************************************************************)
(* Operations on the user-level objects.                                   *)
(***************************************************************************)
DefaultCtor(o) ==
    /\ ~Exists(o)
    /\ fn' \in DefaultConstruct(fn, o)
    /\ hist' = [hist EXCEPT ![o] = "default"]
    /\ UNCHANGED <<uartVars, pureVars, driverVars>>

NullptrCtor(o) ==
    /\ ~Exists(o)
    /\ fn' \in NullptrConstruct(fn, o)
    /\ hist' = [hist EXCEPT ![o] = "nullptr"]
    /\ UNCHANGED <<uartVars, pureVars, driverVars>>

CallableCtor(o, c) ==
    /\ ~Exists(o)
    /\ fn' \in ConstructFrom(fn, o, c)
    /\ hist' = [hist EXCEPT ![o] = "callable"]
    /\ UNCHANGED <<uartVars, pureVars, driverVars>>

MoveCtor(o, other) ==
    /\ ~Exists(o)
    /\ Exists(other)
    /\ fn' \in MoveConstruct(fn, o, other)
    /\ hist' = [hist EXCEPT ![o] = "moved_to", ![other] = "moved_from"]
    /\ UNCHANGED <<uartVars, pureVars, driverVars>>

MoveAssignOp(o, other) ==
    /\ Exists(o)
    /\ Exists(other)
    /\ fn' \in MoveAssign(fn, o, other)
    /\ hist' = IF o = other
               THEN [hist EXCEPT ![o] = "self_moved"]
               ELSE [hist EXCEPT ![o] = "moved_to", ![other] = "moved_from"]
    /\ UNCHANGED <<uartVars, pureVars, driverVars>>

NullptrAssignOp(o) ==
    /\ Exists(o)
    /\ fn' \in AssignNullptr(fn, o)
    /\ hist' = [hist EXCEPT ![o] = "reset"]
    /\ UNCHANGED <<uartVars, pureVars, driverVars>>

CallableAssignOp(o, c) ==
    /\ Exists(o)
    /\ fn' \in AssignFrom(fn, o, c)
    /\ hist' = [hist EXCEPT ![o] = "callable"]
    /\ UNCHANGED <<uartVars, pureVars, driverVars>>

ResetOp(o) ==
    /\ Exists(o)
    /\ fn' \in Reset(fn, o)
    /\ hist' = [hist EXCEPT ![o] = "reset"]
    /\ UNCHANGED <<uartVars, pureVars, driverVars>>

InvokeOp(o) ==
    /\ Exists(o)
    /\ MayRun(o)
    /\ fn' \in InvokeAt(fn, o)
    /\ UNCHANGED <<hist, uartVars, pureVars, driverVars>>

DtorOp(o) ==
    /\ Exists(o)
    /\ fn' \in Destructor(fn, o)
    /\ hist' = [hist EXCEPT ![o] = "dead"]
    /\ UNCHANGED <<uartVars, pureVars, driverVars>>

(***************************************************************************)
(* Direct calls of the static functions of __CallbackManager.  The caller  *)
(* passes a temporary CallbackT constructed from the callable c; the       *)
(* temporary is destroyed when the call has returned.                      *)
(***************************************************************************)
RegisterReceive(tag, c) ==
    /\ \E F1 \in ConstructFrom(fn, Tmp, c) :
         \E F2 \in RegisterReceiveCompleteCallback(F1, tag, Tmp) :
            fn' \in Destructor(F2, Tmp)
    /\ hist' = [hist EXCEPT ![ReceiveSlot(tag)] =
                    IF IsSet(fn[ReceiveSlot(tag)]) THEN "replaced" ELSE "set"]
    /\ UNCHANGED <<uartVars, pureVars, driverVars>>

RegisterTransmit(tag, c) ==
    /\ \E F1 \in ConstructFrom(fn, Tmp, c) :
         \E F2 \in RegisterTransmitCompleteCallback(F1, tag, Tmp) :
            fn' \in Destructor(F2, Tmp)
    /\ hist' = [hist EXCEPT ![TransmitSlot(tag)] =
                    IF IsSet(fn[TransmitSlot(tag)]) THEN "replaced" ELSE "set"]
    /\ UNCHANGED <<uartVars, pureVars, driverVars>>

ReceiveTrampoline(tag) ==
    /\ MayRun(ReceiveSlot(tag))
    /\ fn' \in ReceiveCompleteCallback(fn, tag)
    /\ UNCHANGED <<hist, uartVars, pureVars, driverVars>>

TransmitTrampoline(tag) ==
    /\ MayRun(TransmitSlot(tag))
    /\ fn' \in TransmitCompleteCallback(fn, tag)
    /\ UNCHANGED <<hist, uartVars, pureVars, driverVars>>

UnRegister(tag) ==
    /\ fn' \in UnRegisterCallbacks(fn, tag)
    /\ hist' = [hist EXCEPT ![ReceiveSlot(tag)] = "cleared",
                            ![TransmitSlot(tag)] = "cleared"]
    /\ UNCHANGED <<uartVars, pureVars, driverVars>>

\* The tag whose slots are explored together with the user-level objects.
OneTag == {"Tag1"}

LocalNext ==
    \E o \in Locals :
        \/ DefaultCtor(o)
        \/ NullptrCtor(o)
        \/ \E c \in Callables : CallableCtor(o, c)
        \/ \E other \in Locals \ {o} : MoveCtor(o, other)
        \/ \E other \in Locals : MoveAssignOp(o, other)
        \/ NullptrAssignOp(o)
        \/ \E c \in Callables : CallableAssignOp(o, c)
        \/ ResetOp(o)
        \/ InvokeOp(o)
        \/ DtorOp(o)

Next == LocalNext

\* The user-level objects alone, every operation callable in any order.
Spec == Init /\ [][Next]_vars

ObjectsAndSlotsNext ==
    \/ LocalNext
    \/ \E tag \in OneTag, c \in Callables : RegisterReceive(tag, c)
    \/ \E tag \in OneTag, c \in Callables : RegisterTransmit(tag, c)
    \/ \E tag \in OneTag : ReceiveTrampoline(tag)
    \/ \E tag \in OneTag : TransmitTrampoline(tag)
    \/ \E tag \in OneTag : UnRegister(tag)

\* The user-level objects together with the slots of one tag.
SpecObjectsAndSlots == Init /\ [][ObjectsAndSlotsNext]_vars

RegistryNext ==
    \/ \E tag \in Tags, c \in Callables : RegisterReceive(tag, c)
    \/ \E tag \in Tags, c \in Callables : RegisterTransmit(tag, c)
    \/ \E tag \in Tags : ReceiveTrampoline(tag)
    \/ \E tag \in Tags : TransmitTrampoline(tag)
    \/ \E tag \in Tags : UnRegister(tag)

\* The slots of both tags, every registry function callable directly.
SpecRegistry == Init /\ [][RegistryNext]_vars

(***************************************************************************)
(* The Uart wrapper.  A non-blocking call stores the callback and then     *)
(* calls the HAL; a completion interrupt can be taken between the two.     *)
(***************************************************************************)
SlotOf(u, ev) ==
    IF ev = TxCplt THEN TransmitSlot(UniqueTagT(u)) ELSE ReceiveSlot(UniqueTagT(u))

\* Uart(handle): the callback managers register their trampolines.
UartConstructor(u) ==
    /\ u \notin alive
    /\ pc = Idle
    /\ alive' = alive \cup {u}
    /\ registered' = [k \in AllUarts \X Events |-> IF k[1] = u THEN TRUE ELSE registered[k]]
    /\ UNCHANGED <<fn, hist, inflight, pc, pureVars, driverVars>>

\* ~Uart(): the trampolines are unregistered and the slots cleared.
UartDestructor(u) ==
    /\ u \in alive
    /\ pc = Idle
    /\ alive' = alive \ {u}
    /\ registered' = [k \in AllUarts \X Events |-> IF k[1] = u THEN FALSE ELSE registered[k]]
    /\ fn' \in UnRegisterCallbacks(fn, UniqueTagT(u))
    /\ hist' = [hist EXCEPT ![ReceiveSlot(UniqueTagT(u))] = "cleared",
                            ![TransmitSlot(UniqueTagT(u))] = "cleared"]
    /\ UNCHANGED <<inflight, pc, pureVars, driverVars>>

\* The status of HAL_UART_Transmit_IT/_DMA and HAL_UART_Receive_IT/_DMA:
\* HAL_BUSY while an operation of that direction is in flight, else HAL_OK,
\* or HAL_ERROR for a message the HAL refuses.
HalStart(op) == IF op # NoOp THEN {"HAL_BUSY"} ELSE {"HAL_OK", "HAL_ERROR"}

\* Transmit(tx_message, complete_callback), first statement: Set.
UartTransmitSet(u, c) ==
    /\ u \in alive
    /\ pc = Idle
    /\ \E F1 \in ConstructFrom(fn, Tmp, c) :
         \E F2 \in RegisterTransmitCompleteCallback(F1, UniqueTagT(u), Tmp) :
            fn' \in Destructor(F2, Tmp)
    /\ hist' = [hist EXCEPT ![TransmitSlot(UniqueTagT(u))] =
                    IF IsSet(fn[TransmitSlot(UniqueTagT(u))]) THEN "replaced" ELSE "set"]
    /\ pc' = <<TxCplt, u, c>>
    /\ UNCHANGED <<registered, alive, inflight, pureVars, driverVars>>

\* Transmit, second statement: the HAL start, whose status is returned.
UartTransmitStart(u) ==
    /\ pc[1] = TxCplt /\ pc[2] = u
    /\ \E status \in HalStart(inflight[<<u, TxCplt>>]) :
         inflight' = IF status = "HAL_OK"
                     THEN [inflight EXCEPT ![<<u, TxCplt>>] = pc[3]]
                     ELSE inflight
    /\ pc' = Idle
    /\ UNCHANGED <<fn, hist, registered, alive, pureVars, driverVars>>

\* ReceiveTo(rx_message, complete_callback), first statement: Set.
UartReceiveToSet(u, c) ==
    /\ u \in alive
    /\ pc = Idle
    /\ \E F1 \in ConstructFrom(fn, Tmp, c) :
         \E F2 \in RegisterReceiveCompleteCallback(F1, UniqueTagT(u), Tmp) :
            fn' \in Destructor(F2, Tmp)
    /\ hist' = [hist EXCEPT ![ReceiveSlot(UniqueTagT(u))] =
                    IF IsSet(fn[ReceiveSlot(UniqueTagT(u))]) THEN "replaced" ELSE "set"]
    /\ pc' = <<RxCplt, u, c>>
    /\ UNCHANGED <<registered, alive, inflight, pureVars, driverVars>>

\* ReceiveTo, second statement: the HAL start, whose status is returned.
UartReceiveToStart(u) ==
    /\ pc[1] = RxCplt /\ pc[2] = u
    /\ \E status \in HalStart(inflight[<<u, RxCplt>>]) :
         inflight' = IF status = "HAL_OK"
                     THEN [inflight EXCEPT ![<<u, RxCplt>>] = pc[3]]
                     ELSE inflight
    /\ pc' = Idle
    /\ UNCHANGED <<fn, hist, registered, alive, pureVars, driverVars>>

\* The transmit-complete interrupt of the operation in flight: the HAL calls
\* the callback registered for the event, once.
HalTxComplete(u) ==
    /\ inflight[<<u, TxCplt>>] # NoOp
    /\ MayRun(TransmitSlot(UniqueTagT(u)))
    /\ inflight' = [inflight EXCEPT ![<<u, TxCplt>>] = NoOp]
    /\ fn' \in IF registered[<<u, TxCplt>>]
               THEN TransmitCompleteCallback(fn, UniqueTagT(u))
               ELSE {fn}
    /\ UNCHANGED <<hist, registered, alive, pc, pureVars, driverVars>>

\* The receive-complete interrupt of the operation in flight.
HalRxComplete(u) ==
    /\ inflight[<<u, RxCplt>>] # NoOp
    /\ MayRun(ReceiveSlot(UniqueTagT(u)))
    /\ inflight' = [inflight EXCEPT ![<<u, RxCplt>>] = NoOp]
    /\ fn' \in IF registered[<<u, RxCplt>>]
               THEN ReceiveCompleteCallback(fn, UniqueTagT(u))
               ELSE {fn}
    /\ UNCHANGED <<hist, registered, alive, pc, pureVars, driverVars>>

UartNext ==
    \E u \in Uarts :
        \/ UartConstructor(u)
        \/ UartDestructor(u)
        \/ \E c \in Callables : UartTransmitSet(u, c)
        \/ UartTransmitStart(u)
        \/ \E c \in Callables : UartReceiveToSet(u, c)
        \/ UartReceiveToStart(u)
        \/ HalTxComplete(u)
        \/ HalRxComplete(u)

\* A wrapper instance driven through its interface, with completion
\* interrupts fired by the HAL once per operation it accepted.
SpecUart == Init /\ [][UartNext]_vars

\* Two instances declared with one unique-tag alias, each driven through its
\* interface and with its own HAL handle.
AliasedUartsNext ==
    \E u \in AliasedUarts :
        \/ UartConstructor(u)
        \/ UartDestructor(u)
        \/ \E c \in Callables : UartTransmitSet(u, c)
        \/ UartTransmitStart(u)
        \/ \E c \in Callables : UartReceiveToSet(u, c)
        \/ UartReceiveToStart(u)
        \/ HalTxComplete(u)
        \/ HalRxComplete(u)

SpecAliasedUarts == Init /\ [][AliasedUartsNext]_vars

(***************************************************************************)
(* RegisterTransmitCompleteCallback statement by statement, with the       *)
(* transmit-complete interrupt taken between any two statements.  pc is    *)
(* <<statement to execute next, tag, callable>>.  The interrupt handler    *)
(* runs to completion.                                                     *)
(***************************************************************************)

\* The call site: the temporary CallbackT is constructed from c and
\* operator=(__InplaceFunction&&) is entered; this != &other holds.
SetEnter(tag, c) ==
    /\ pc = Idle
    /\ fn' \in ConstructFrom(fn, Tmp, c)
    /\ hist' = [hist EXCEPT ![TransmitSlot(tag)] =
                    IF IsSet(fn[TransmitSlot(tag)]) THEN "replaced" ELSE "set"]
    /\ pc' = <<"destroy", tag, c>>
    /\ UNCHANGED <<registered, alive, inflight, pureVars, driverVars>>

\* Reset(): if (m_destroy) m_destroy(m_storage);
SetDestroy(tag) ==
    /\ pc[1] = "destroy" /\ pc[2] = tag
    /\ \E s \in IF fn[TransmitSlot(tag)].m_destroy # Null
                THEN DestroyThunk(fn[TransmitSlot(tag)].m_destroy,
                                  fn[TransmitSlot(tag)].m_storage)
                ELSE {fn[TransmitSlot(tag)].m_storage} :
         fn' = [fn EXCEPT ![TransmitSlot(tag)].m_storage = s]
    /\ pc' = <<"null_invoke", tag, pc[3]>>
    /\ UNCHANGED <<hist, registered, alive, inflight, pureVars, driverVars>>

\* Reset(): m_invoke = nullptr;
SetNullInvoke(tag) ==
    /\ pc[1] = "null_invoke" /\ pc[2] = tag
    /\ fn' = [fn EXCEPT ![TransmitSlot(tag)].m_invoke = Null]
    /\ pc' = <<"null_destroy", tag, pc[3]>>
    /\ UNCHANGED <<hist, registered, alive, inflight, pureVars, driverVars>>

\* Reset(): m_destroy = nullptr;
SetNullDestroy(tag) ==
    /\ pc[1] = "null_destroy" /\ pc[2] = tag
    /\ fn' = [fn EXCEPT ![TransmitSlot(tag)].m_destroy = Null]
    /\ pc' = <<"null_move", tag, pc[3]>>
    /\ UNCHANGED <<hist, registered, alive, inflight, pureVars, driverVars>>

\* Reset(): m_move = nullptr;
SetNullMove(tag) ==
    /\ pc[1] = "null_move" /\ pc[2] = tag
    /\ fn' = [fn EXCEPT ![TransmitSlot(tag)].m_move = Null]
    /\ pc' = <<"copy_invoke", tag, pc[3]>>
    /\ UNCHANGED <<hist, registered, alive, inflight, pureVars, driverVars>>

\* m_invoke = other.m_invoke;
SetCopyInvoke(tag) ==
    /\ pc[1] = "copy_invoke" /\ pc[2] = tag
    /\ fn' = [fn EXCEPT ![TransmitSlot(tag)].m_invoke = fn[Tmp].m_invoke]
    /\ pc' = <<"copy_destroy", tag, pc[3]>>
    /\ UNCHANGED <<hist, registered, alive, inflight, pureVars, driverVars>>

\* m_destroy = other.m_destroy;
SetCopyDestroy(tag) ==
    /\ pc[1] = "copy_destroy" /\ pc[2] = tag
    /\ fn' = [fn EXCEPT ![TransmitSlot(tag)].m_destroy = fn[Tmp].m_destroy]
    /\ pc' = <<"copy_move", tag, pc[3]>>
    /\ UNCHANGED <<hist, registered, alive, inflight, pureVars, driverVars>>

\* m_move = other.m_move;
SetCopyMove(tag) ==
    /\ pc[1] = "copy_move" /\ pc[2] = tag
    /\ fn' = [fn EXCEPT ![TransmitSlot(tag)].m_move = fn[Tmp].m_move]
    /\ pc' = <<"relocate", tag, pc[3]>>
    /\ UNCHANGED <<hist, registered, alive, inflight, pureVars, driverVars>>

\* if (m_move) m_move(m_storage, other.m_storage);
SetRelocate(tag) ==
    /\ pc[1] = "relocate" /\ pc[2] = tag
    /\ \E st \in IF fn[TransmitSlot(tag)].m_move # Null
                 THEN MoveThunk(fn[TransmitSlot(tag)].m_move,
                                fn[TransmitSlot(tag)].m_storage, fn[Tmp].m_storage)
                 ELSE {<<fn[TransmitSlot(tag)].m_storage, fn[Tmp].m_storage>>} :
         fn' = [fn EXCEPT ![TransmitSlot(tag)].m_storage = st[1],
                          ![Tmp].m_storage = st[2]]
    /\ pc' = <<"null_other", tag, pc[3]>>
    /\ UNCHANGED <<hist, registered, alive, inflight, pureVars, driverVars>>

\* other.m_invoke = nullptr; other.m_destroy = nullptr; other.m_move = nullptr;
\* and, back at the call site, the destruction of the temporary.  Neither
\* touches the slot.
SetLeave(tag) ==
    /\ pc[1] = "null_other" /\ pc[2] = tag
    /\ fn' \in Destructor([fn EXCEPT ![Tmp].m_invoke = Null, ![Tmp].m_destroy = Null,
                                     ![Tmp].m_move = Null], Tmp)
    /\ pc' = Idle
    /\ UNCHANGED <<hist, registered, alive, inflight, pureVars, driverVars>>

\* The slot has a non-null m_invoke while its buffer holds no live object of
\* the type that m_invoke was instantiated for.
Dangling(o) == o.m_invoke # Null /\ ~Live(o.m_invoke, o.m_storage)

\* The transmit-complete interrupt: TransmitCompleteCallback runs at once.  The
\* history of the slot records a call through a dangling m_invoke.
TransmitCompleteInterrupt(tag) ==
    /\ MayRun(TransmitSlot(tag))
    /\ fn' \in TransmitCompleteCallback(fn, tag)
    /\ hist' = IF Dangling(fn[TransmitSlot(tag)])
               THEN [hist EXCEPT ![TransmitSlot(tag)] = "undefined_call"]
               ELSE hist
    /\ UNCHANGED <<uartVars, pureVars, driverVars>>

PreemptedSetNext ==
    \E tag \in OneTag :
        \/ \E c \in Callables : SetEnter(tag, c)
        \/ SetDestroy(tag)
        \/ SetNullInvoke(tag)
        \/ SetNullDestroy(tag)
        \/ SetNullMove(tag)
        \/ SetCopyInvoke(tag)
        \/ SetCopyDestroy(tag)
        \/ SetCopyMove(tag)
        \/ SetRelocate(tag)
        \/ SetLeave(tag)
        \/ TransmitCompleteInterrupt(tag)

SpecPreemptedSet == Init /\ [][PreemptedSetNext]_vars

(***************************************************************************)
(* The stateless utilities.  Each specification starts with the arguments  *)
(* of one use and applies the functions to them.                           *)
(***************************************************************************)
callbackVars == <<fn, hist, registered, alive, inflight, pc>>

InitCrc16 ==
    /\ CallbackInit
    /\ DriverInit
    /\ len = NoClampCall
    /\ adc = NoAdcCall
    /\ step = NoStepCall
    /\ refl = NoReflectCall
    /\ \E cfg \in Crc16Configs, data \in Crc16Inputs :
         crc = [cfg |-> cfg, data |-> data, calculated |-> FALSE, whole |-> 0,
                lookups |-> 0, stage |-> "start", acc |-> 0, chunks |-> << >>,
                fed |-> 0, final |-> 0]

\* whole = Crc::Calculate(data)
CalculateCall ==
    /\ ~crc.calculated
    /\ crc' = [crc EXCEPT !.calculated = TRUE,
                          !.whole = Calculate(crc.cfg, crc.data),
                          !.lookups = CalculateRun(crc.cfg, crc.data).lookups]
    /\ UNCHANGED <<callbackVars, driverVars, len, adc, step, refl>>

\* acc = Crc::Init(), the start of the streaming computation of the same data
Crc16InitCall ==
    /\ crc.calculated
    /\ crc.stage = "start"
    /\ crc' = [crc EXCEPT !.stage = "streaming", !.acc = Crc16Init(crc.cfg)]
    /\ UNCHANGED <<callbackVars, driverVars, len, adc, step, refl>>

\* acc = Crc::Update(acc, chunk), the chunk being the next n bytes of the data
UpdateCall(n) ==
    /\ crc.stage = "streaming"
    /\ Len(crc.chunks) < MaxChunks
    /\ crc.fed + n <= Len(crc.data)
    /\ LET chunk == SubSeq(crc.data, crc.fed + 1, crc.fed + n)
       IN  crc' = [crc EXCEPT !.acc = Update(crc.cfg, crc.acc, chunk),
                              !.chunks = Append(crc.chunks, chunk),
                              !.fed = crc.fed + n]
    /\ UNCHANGED <<callbackVars, driverVars, len, adc, step, refl>>

\* final = Crc::Finalize(acc)
FinalizeCall ==
    /\ crc.stage = "streaming"
    /\ crc' = [crc EXCEPT !.stage = "finalized", !.final = Finalize(crc.cfg, crc.acc)]
    /\ UNCHANGED <<callbackVars, driverVars, len, adc, step, refl>>

Crc16Next ==
    \/ CalculateCall
    \/ Crc16InitCall
    \/ \E n \in 0..Len(CheckInput) : UpdateCall(n)
    \/ FinalizeCall

SpecCrc16 == InitCrc16 /\ [][Crc16Next]_vars

InitClampMessageLength ==
    /\ CallbackInit
    /\ DriverInit
    /\ crc = NoCrcCall
    /\ adc = NoAdcCall
    /\ step = NoStepCall
    /\ refl = NoReflectCall
    /\ \E t \in UnsignedTargets, s \in ClampSizes :
         len = [TargetT |-> t, size |-> s, done |-> FALSE, result |-> 0]

\* result = __ClampMessageLength<TargetT>(size)
ClampCall ==
    /\ ~len.done
    /\ len' = [len EXCEPT !.done = TRUE,
                          !.result = ClampMessageLength(len.TargetT, len.size)]
    /\ UNCHANGED <<callbackVars, driverVars, crc, adc, step, refl>>

ClampMessageLengthNext == ClampCall

SpecClampMessageLength == InitClampMessageLength /\ [][ClampMessageLengthNext]_vars

\* Get() is entered: adc_values{} and filled_size{} are zero, the loop starts.
\* converting is the state of the ADC (started and not stopped); log is the
\* history of the attempts made.
InitAdcGet ==
    /\ CallbackInit
    /\ DriverInit
    /\ crc = NoCrcCall
    /\ len = NoClampCall
    /\ step = NoStepCall
    /\ refl = NoReflectCall
    /\ \E cfg \in AdcConfigs :
         adc = [cfg |-> cfg, at |-> "start", i |-> 0, filled_size |-> 0,
                adc_values |-> [j \in 1..cfg.MedianFilterSize |-> 0],
                converting |-> FALSE, log |-> << >>, result |-> 0]

\* i < adc_values.size(): HAL_ADC_Start; on failure continue with ++i.
AdcStart(status) ==
    /\ adc.at = "start"
    /\ adc.i < Len(adc.adc_values)
    /\ adc' = IF status # "HAL_OK"
              THEN [adc EXCEPT !.i = adc.i + 1,
                               !.log = Append(adc.log,
                                   [start |-> status, poll |-> "none", raw |-> 0])]
              ELSE [adc EXCEPT !.at = "poll", !.converting = TRUE]
    /\ UNCHANGED <<callbackVars, driverVars, crc, len, step, refl>>

\* HAL_ADC_PollForConversion; on HAL_OK the converted value is stored.
AdcPoll(status, raw) ==
    /\ adc.at = "poll"
    /\ adc' = IF status = "HAL_OK"
              THEN [adc EXCEPT !.at = "stop",
                               !.adc_values[adc.filled_size + 1] =
                                    ConvertToOutput(adc.cfg, raw),
                               !.filled_size = adc.filled_size + 1,
                               !.log = Append(adc.log,
                                   [start |-> "HAL_OK", poll |-> status, raw |-> raw])]
              ELSE [adc EXCEPT !.at = "stop",
                               !.log = Append(adc.log,
                                   [start |-> "HAL_OK", poll |-> status, raw |-> 0])]
    /\ UNCHANGED <<callbackVars, driverVars, crc, len, step, refl>>

\* HAL_ADC_Stop; ++i.
AdcStop ==
    /\ adc.at = "stop"
    /\ adc' = [adc EXCEPT !.at = "start", !.converting = FALSE, !.i = adc.i + 1]
    /\ UNCHANGED <<callbackVars, driverVars, crc, len, step, refl>>

\* After the loop: 0 when nothing was stored, else sort and take the middle.
AdcReturn ==
    /\ adc.at = "start"
    /\ adc.i >= Len(adc.adc_values)
    /\ adc' = IF adc.filled_size = 0
              THEN [adc EXCEPT !.at = "returned", !.result = 0]
              ELSE LET sorted == SortPrefix(adc.adc_values, adc.filled_size)
                   IN  [adc EXCEPT !.at = "returned", !.adc_values = sorted,
                                   !.result = sorted[(adc.filled_size \div 2) + 1]]
    /\ UNCHANGED <<callbackVars, driverVars, crc, len, step, refl>>

AdcGetNext ==
    \/ \E status \in StartStatuses : AdcStart(status)
    \/ \E status \in PollStatuses, raw \in RawValues : AdcPoll(status, raw)
    \/ AdcStop
    \/ AdcReturn

SpecAdcGet == InitAdcGet /\ [][AdcGetNext]_vars

\* One per-byte step, called on its own: Update(crc, {byte}).
InitCrc16Step ==
    /\ CallbackInit
    /\ DriverInit
    /\ crc = NoCrcCall
    /\ len = NoClampCall
    /\ adc = NoAdcCall
    /\ refl = NoReflectCall
    /\ \E cfg \in StepConfigs, c \in StepRegisters, b \in StepBytes :
         step = [cfg |-> cfg, crc |-> c, byte |-> b, done |-> FALSE, next |-> 0]

\* next = Crc::Update(crc, {byte})
UpdateStep ==
    /\ ~step.done
    /\ step' = [step EXCEPT !.done = TRUE,
                            !.next = Update(step.cfg, step.crc, <<step.byte>>)]
    /\ UNCHANGED <<callbackVars, driverVars, crc, len, adc, refl>>

Crc16StepNext == UpdateStep

SpecCrc16Step == InitCrc16Step /\ [][Crc16StepNext]_vars

\* A call of __Reflect8 (width 8) or __Reflect16 (width 16) and a second
\* call on its result.
InitReflect ==
    /\ CallbackInit
    /\ DriverInit
    /\ crc = NoCrcCall
    /\ len = NoClampCall
    /\ adc = NoAdcCall
    /\ step = NoStepCall
    /\ \E w \in {8, 16} : \E v \in ReflectArguments(w) :
         refl = [width |-> w, value |-> v, at |-> "start", result |-> 0, again |-> 0]

\* result = __Reflect8(value)
Reflect8Call ==
    /\ refl.at = "start" /\ refl.width = 8
    /\ refl' = [refl EXCEPT !.at = "reflected", !.result = Reflect8(refl.value)]
    /\ UNCHANGED <<callbackVars, driverVars, crc, len, adc, step>>

\* result = __Reflect16(value)
Reflect16Call ==
    /\ refl.at = "start" /\ refl.width = 16
    /\ refl' = [refl EXCEPT !.at = "reflected", !.result = Reflect16(refl.value)]
    /\ UNCHANGED <<callbackVars, driverVars, crc, len, adc, step>>

\* again = __Reflect8(result)
Reflect8Again ==
    /\ refl.at = "reflected" /\ refl.width = 8
    /\ refl' = [refl EXCEPT !.at = "twice", !.again = Reflect8(refl.result)]
    /\ UNCHANGED <<callbackVars, driverVars, crc, len, adc, step>>

\* again = __Reflect16(result)
Reflect16Again ==
    /\ refl.at = "reflected" /\ refl.width = 16
    /\ refl' = [refl EXCEPT !.at = "twice", !.again = Reflect16(refl.result)]
    /\ UNCHANGED <<callbackVars, driverVars, crc, len, adc, step>>

ReflectNext ==
    \/ Reflect8Call
    \/ Reflect16Call
    \/ Reflect8Again
    \/ Reflect16Again

SpecReflect == InitReflect /\ [][ReflectNext]_vars

(***************************************************************************)
(* A stored callable that, while a trampoline executes it, registers a new *)
(* callback for its own slot or unregisters the callbacks (as a completion *)
(* callback does that starts the next transfer).  The interrupt handler    *)
(* runs to completion: the mainline does nothing meanwhile.                *)
(***************************************************************************)

\* Mainline: RegisterTransmitCompleteCallback(CallbackT{c}).
MainlineRegister(tag, c) ==
    /\ running = NoRun
    /\ \E F1 \in ConstructFrom(fn, Tmp, c) :
         \E F2 \in RegisterTransmitCompleteCallback(F1, tag, Tmp) :
            fn' \in Destructor(F2, Tmp)
    /\ hist' = [hist EXCEPT ![TransmitSlot(tag)] =
                    IF IsSet(fn[TransmitSlot(tag)]) THEN "replaced" ELSE "set"]
    /\ UNCHANGED <<uartVars, pureVars, timer, motor, running>>

\* TransmitCompleteCallback: the slot is set, operator() finds m_invoke
\* non-null and calls it; the body of the callable starts.
TrampolineEnter(tag) ==
    /\ running = NoRun
    /\ IsSet(fn[TransmitSlot(tag)])
    /\ MayRun(TransmitSlot(tag))
    /\ running' = [at |-> "body", tag |-> tag, intact |-> TRUE]
    /\ UNCHANGED <<fn, hist, uartVars, pureVars, timer, motor>>

\* The body calls RegisterTransmitCompleteCallback(CallbackT{c}) for its own
\* slot.  The move assignment calls Reset(), which destroys the object in the
\* buffer when m_destroy is set, and relocates the new callable into it.
CallbackRegisters(tag, c) ==
    /\ running.at = "body" /\ running.tag = tag
    /\ \E F1 \in ConstructFrom(fn, Tmp, c) :
         \E F2 \in RegisterTransmitCompleteCallback(F1, tag, Tmp) :
            fn' \in Destructor(F2, Tmp)
    /\ hist' = [hist EXCEPT ![TransmitSlot(tag)] =
                    IF IsSet(fn[TransmitSlot(tag)]) THEN "replaced" ELSE "set"]
    /\ running' = [running EXCEPT
                      !.intact = running.intact /\ fn[TransmitSlot(tag)].m_destroy = Null]
    /\ UNCHANGED <<uartVars, pureVars, timer, motor>>

\* The body calls UnRegisterCallbacks(): both slots are assigned nullptr.
CallbackUnRegisters(tag) ==
    /\ running.at = "body" /\ running.tag = tag
    /\ fn' \in UnRegisterCallbacks(fn, tag)
    /\ hist' = [hist EXCEPT ![ReceiveSlot(tag)] = "cleared",
                            ![TransmitSlot(tag)] = "cleared"]
    /\ running' = [running EXCEPT
                      !.intact = running.intact /\ fn[TransmitSlot(tag)].m_destroy = Null]
    /\ UNCHANGED <<uartVars, pureVars, timer, motor>>

\* The body returns.  An intact callable has run once more; a callable that was
\* destroyed under its own execution has run on a dead object, which is
\* undefined: the buffer may hold anything afterwards.
TrampolineReturn(tag) ==
    /\ running.at = "body" /\ running.tag = tag
    /\ IF running.intact
       THEN fn' \in TransmitCompleteCallback(fn, tag)
       ELSE \E s \in Storage : fn' = [fn EXCEPT ![TransmitSlot(tag)].m_storage = s]
    /\ running' = NoRun
    /\ UNCHANGED <<hist, uartVars, pureVars, timer, motor>>

ReentrantNext ==
    \E tag \in OneTag :
        \/ \E c \in Callables : MainlineRegister(tag, c)
        \/ TrampolineEnter(tag)
        \/ \E c \in Callables : CallbackRegisters(tag, c)
        \/ CallbackUnRegisters(tag)
        \/ TrampolineReturn(tag)

SpecReentrant == Init /\ [][ReentrantNext]_vars

(***************************************************************************)
(* Timer::SleepFor, statement by statement, with the hardware counter      *)
(* counting on its own.                                                    *)
(***************************************************************************)
InitTimer ==
    /\ CallbackInit
    /\ crc = NoCrcCall
    /\ len = NoClampCall
    /\ adc = NoAdcCall
    /\ step = NoStepCall
    /\ refl = NoReflectCall
    /\ running = NoRun
    /\ \E c \in 0..AutoReload : timer = [NoTimer EXCEPT !.counter = c]

InitSleepFor ==
    /\ InitTimer
    /\ motor = NoMotor

\* The counter counts one tick; after the auto-reload value it wraps to zero.
HardwareTick ==
    /\ timer' = [timer EXCEPT !.counter = (timer.counter + 1) % (AutoReload + 1)]
    /\ UNCHANGED <<callbackVars, pureVars, running, motor>>

\* SleepFor(duration) is called.
SleepForCall(duration) ==
    /\ timer.at = "idle"
    /\ timer' = SleepForEntry(timer, duration)
    /\ UNCHANGED <<callbackVars, pureVars, running, motor>>

\* SleepFor: Reset();
SleepForReset ==
    /\ timer.at = "reset"
    /\ timer' = [TimerReset(timer) EXCEPT !.at = "poll"]
    /\ UNCHANGED <<callbackVars, pureVars, running, motor>>

\* SleepFor: while(Get() < duration); one evaluation of the condition, which
\* either repeats or leaves the loop and returns.
SleepForPoll ==
    /\ timer.at = "poll"
    /\ timer' = IF StillSleeping(timer, timer.duration)
                THEN timer
                ELSE [timer EXCEPT !.at = "idle", !.returned = TRUE]
    /\ UNCHANGED <<callbackVars, pureVars, running, motor>>

SleepForNext ==
    \/ HardwareTick
    \/ \E duration \in Durations : SleepForCall(duration)
    \/ SleepForReset
    \/ SleepForPoll

\* The counter keeps counting, the caller keeps executing, and the loop, which
\* does nothing but read the counter, reads it at some time while it is at or
\* above the duration if it is there again and again.
SpecSleepFor ==
    /\ InitSleepFor
    /\ [][SleepForNext]_vars
    /\ WF_vars(HardwareTick)
    /\ WF_vars(SleepForReset)
    /\ SF_vars(SleepForPoll)

(***************************************************************************)
(* l298n_linear_motor, statement by statement.                             *)
(***************************************************************************)
InitL298n ==
    /\ InitTimer
    /\ \E f \in GpioPinState, b \in GpioPinState :
         motor = [NoMotor EXCEPT !.m_forward_pin = f, !.m_backward_pin = b]

\* The statement the function under way executes next, if any.
MotorAtStatement ==
    /\ motor.call # "none"
    /\ motor.at <= Len(MotorBody(motor.call))

\* l298n_linear_motor(forward_pin, backward_pin, us_timer) is entered.
MotorConstruct ==
    /\ motor.object = "none"
    /\ motor.call = "none"
    /\ motor' = [motor EXCEPT !.call = "constructor", !.at = 1]
    /\ UNCHANGED <<callbackVars, pureVars, running, timer>>

\* A member function of the constructed motor is called.
MotorCall(f, duration) ==
    /\ motor.object = "constructed"
    /\ motor.call = "none"
    /\ motor' = [motor EXCEPT !.call = f, !.at = 1, !.duration = duration]
    /\ UNCHANGED <<callbackVars, pureVars, running, timer>>

\* ~l298n_linear_motor() is entered.
MotorDestroy ==
    /\ motor.object = "constructed"
    /\ motor.call = "none"
    /\ motor' = [motor EXCEPT !.call = "destructor", !.at = 1]
    /\ UNCHANGED <<callbackVars, pureVars, running, timer>>

\* The next statement is a pin write.
MotorWrite ==
    /\ MotorAtStatement
    /\ timer.at = "idle"
    /\ LET statement == MotorBody(motor.call)[motor.at]
       IN  /\ statement[1] = "Write"
           /\ motor' = IF statement[2] = "m_forward_pin"
                       THEN [motor EXCEPT !.m_forward_pin = statement[3],
                                          !.at = motor.at + 1]
                       ELSE [motor EXCEPT !.m_backward_pin = statement[3],
                                          !.at = motor.at + 1]
    /\ UNCHANGED <<callbackVars, pureVars, running, timer>>

\* The next statement is m_us_timer->SleepFor(duration): the function goes on
\* when SleepFor has returned.
MotorSleepFor ==
    /\ MotorAtStatement
    /\ timer.at = "idle"
    /\ MotorBody(motor.call)[motor.at] = SleepForStatement
    /\ timer' = SleepForEntry(timer, motor.duration)
    /\ motor' = [motor EXCEPT !.at = motor.at + 1]
    /\ UNCHANGED <<callbackVars, pureVars, running>>

\* The function returns.
MotorReturn ==
    /\ motor.call # "none"
    /\ motor.at > Len(MotorBody(motor.call))
    /\ timer.at = "idle"
    /\ motor' = [motor EXCEPT
                    !.call = "none", !.at = 0, !.last = motor.call,
                    !.object = IF motor.call = "constructor" THEN "constructed"
                               ELSE IF motor.call = "destructor" THEN "destroyed"
                               ELSE motor.object]
    /\ UNCHANGED <<callbackVars, pureVars, running, timer>>

L298nNext ==
    \/ MotorConstruct
    \/ \E f \in MotorFunctions, duration \in MotorDurations : MotorCall(f, duration)
    \/ MotorDestroy
    \/ MotorWrite
    \/ MotorSleepFor
    \/ MotorReturn
    \/ HardwareTick
    \/ SleepForReset
    \/ SleepForPoll

SpecL298n == InitL298n /\ [][L298nNext]_vars

(***************************************************************************)
(* Properties of __InplaceFunction.                                        *)
(***************************************************************************)
LocalX == <<"local", "x">>

LocalY == <<"local", "y">>

\* The kinds of history after which an object holds no callable.
EmptyKinds == {"default", "nullptr", "reset", "moved_from", "static", "cleared"}

\* C1: an object constructed (or assigned) from a callable c holds a fresh c,
\* so that its first operator() has the effect of calling c directly, and every
\* operator() on it has exactly the effect of one direct call of the callable
\* it holds: the callable runs once per call and nothing else changes.
C1_InvokeRunsCallableOncePerCall ==
    [][\A o \in Locals :
          /\ \A c \in Callables :
                (CallableCtor(o, c) \/ CallableAssignOp(o, c))
                    => Invoke(fn'[o]) = {Call(<<c, 0>>)}
          /\ (InvokeOp(o) /\ hist[o] = "callable")
                    => fn' = [fn EXCEPT ![o].m_storage = Call(fn[o].m_storage)]
      ]_vars

\* x was constructed from f and then invoked twice: f has run twice.
C1_Witness ==
    /\ hist[LocalX] = "callable"
    /\ fn[LocalX].m_storage = <<"f", 2>>

\* C2: operator bool is false after default construction, construction from
\* nullptr, Reset() and for the source of a move from another object; it is
\* true after construction or assignment from a callable, and for the
\* destination of a move construction or move assignment whose source was set.
C2_IsSetFollowsHistory ==
    [][\A o \in Objects :
          /\ hist'[o] \in EmptyKinds => ~IsSet(fn'[o])
          /\ hist'[o] = "callable" => IsSet(fn'[o])
          /\ \A other \in Locals \ {o} :
                ((MoveCtor(o, other) \/ MoveAssignOp(o, other)) /\ IsSet(fn[other]))
                    => IsSet(fn'[o])
      ]_vars

\* y was set, has been moved from and is unset; x, its destination, is set.
C2_Witness ==
    /\ hist[LocalY] = "moved_from" /\ ~IsSet(fn[LocalY])
    /\ hist[LocalX] = "moved_to" /\ IsSet(fn[LocalX])

\* C3: operator() on an object that was default-constructed, constructed from
\* nullptr, Reset or moved from, and a trampoline on a slot that was never set
\* or was cleared since it was last set, change nothing: no callable runs and
\* the slot stays empty.
C3_EmptyInvokeIsNoOp ==
    [][/\ \A o \in Locals :
            (InvokeOp(o) /\ hist[o] \in EmptyKinds) => UNCHANGED vars
       /\ \A tag \in Tags :
            /\ (ReceiveTrampoline(tag) /\ hist[ReceiveSlot(tag)] \in EmptyKinds)
                  => (UNCHANGED vars /\ ~IsSet(fn'[ReceiveSlot(tag)]))
            /\ (TransmitTrampoline(tag) /\ hist[TransmitSlot(tag)] \in EmptyKinds)
                  => (UNCHANGED vars /\ ~IsSet(fn'[TransmitSlot(tag)]))
      ]_vars

\* Callables have run, x is a moved-from object and the receive slot of Tag1
\* was cleared after it had been set: operator() on x and the trampoline of
\* that slot can be called.
C3_Witness ==
    /\ hist[LocalX] = "moved_from"
    /\ hist[ReceiveSlot("Tag1")] = "cleared"
    /\ fn[LocalY].m_storage = <<"f", 1>>
    /\ fn[TransmitSlot("Tag1")].m_storage = <<"g", 1>>
    /\ ENABLED InvokeOp(LocalX)
    /\ ENABLED ReceiveTrampoline("Tag1")

\* C4: a move construction or a move assignment from a different object leaves
\* in the destination exactly the callable object the source held (operator()
\* on the destination does what operator() on the source did before), and
\* leaves the source empty: it holds no object and operator() on it does nothing.
C4_MoveTransfersCallable ==
    [][\A o \in Locals : \A other \in Locals \ {o} :
          (MoveCtor(o, other) \/ MoveAssignOp(o, other))
              => /\ fn'[o].m_storage = fn[other].m_storage
                 /\ Invoke(fn'[o]) = Invoke(fn[other])
                 /\ ~IsSet(fn'[other])
                 /\ fn'[other].m_storage = NoObj
                 /\ Invoke(fn'[other]) = {NoObj}
      ]_vars

\* y holds the callable g that had run once in x before it was moved.
C4_Witness ==
    /\ hist[LocalY] = "moved_to"
    /\ hist[LocalX] = "moved_from"
    /\ fn[LocalY].m_storage = <<"g", 1>>
    /\ fn[LocalX] = EmptyFunction

\* C5: a move assignment of an object to itself changes none of its data
\* members (the callable is neither destroyed nor relocated), so operator bool
\* and a later operator() behave as before.
C5_SelfMoveAssignIsNoOp ==
    [][\A o \in Locals :
          MoveAssignOp(o, o)
              => /\ fn' = fn
                 /\ IsSet(fn'[o]) = IsSet(fn[o])
                 /\ Invoke(fn'[o]) = Invoke(fn[o])
      ]_vars

\* x holds f, which has run once, and was just move-assigned to itself.
C5_Witness ==
    /\ hist[LocalX] = "self_moved"
    /\ fn[LocalX].m_storage = <<"f", 1>>
    /\ IsSet(fn[LocalX])

(***************************************************************************)
(* Properties of the __CallbackManager slots.                              *)
(***************************************************************************)

\* F with a fresh callable c, and nothing else, in object o.
Holding(F, o, c) ==
    [F EXCEPT ![o] = [m_storage |-> <<c, 0>>, m_invoke |-> DecayedF(c),
                      m_destroy |-> DecayedF(c), m_move |-> DecayedF(c)]]

\* C6: a slot holds one callable and registering replaces it: after the
\* registration of b the slot holds a fresh b and nothing of what it held
\* before (the replaced callable is gone without having been run by the
\* registration), and a trampoline on a slot that holds a callable runs that
\* callable once and changes nothing else.
C6_SetReplaces ==
    [][\A tag \in Tags :
          /\ \A b \in Callables :
                /\ RegisterReceive(tag, b) => fn' = Holding(fn, ReceiveSlot(tag), b)
                /\ RegisterTransmit(tag, b) => fn' = Holding(fn, TransmitSlot(tag), b)
          /\ (ReceiveTrampoline(tag) /\ hist[ReceiveSlot(tag)] \in {"set", "replaced"})
                => fn' = [fn EXCEPT ![ReceiveSlot(tag)].m_storage = Call(@)]
          /\ (TransmitTrampoline(tag) /\ hist[TransmitSlot(tag)] \in {"set", "replaced"})
                => fn' = [fn EXCEPT ![TransmitSlot(tag)].m_storage = Call(@)]
      ]_vars

\* The transmit slot of Tag1 was set while it held a pending callable, and the
\* trampoline has since run the replacement g once.
C6_Witness ==
    /\ hist[TransmitSlot("Tag1")] = "replaced"
    /\ fn[TransmitSlot("Tag1")].m_storage = <<"g", 1>>

\* The slots other than s are as they were.
OthersUnchanged(s) == \A s2 \in Slots \ {s} : fn'[s2] = fn[s2]

\* C7 as stated: a registration, a clear or a trampoline on one slot changes no
\* other slot, the slot of the other purpose under the same tag included.
C7_SlotsIsolated ==
    [][\A tag \in Tags :
          /\ ((\E c \in Callables : RegisterReceive(tag, c))
                \/ ReceiveTrampoline(tag) \/ UnRegister(tag))
                    => OthersUnchanged(ReceiveSlot(tag))
          /\ ((\E c \in Callables : RegisterTransmit(tag, c))
                \/ TransmitTrampoline(tag) \/ UnRegister(tag))
                    => OthersUnchanged(TransmitSlot(tag))
      ]_vars

\* C7 as amended: a registration or a trampoline on one slot changes no other
\* slot; UnRegisterCallbacks, the only clear, empties both slots of its own tag
\* and changes no slot of another tag.
C7_SlotsIsolatedExceptClear ==
    [][\A tag \in Tags :
          /\ ((\E c \in Callables : RegisterReceive(tag, c)) \/ ReceiveTrampoline(tag))
                => OthersUnchanged(ReceiveSlot(tag))
          /\ ((\E c \in Callables : RegisterTransmit(tag, c)) \/ TransmitTrampoline(tag))
                => OthersUnchanged(TransmitSlot(tag))
          /\ UnRegister(tag)
                => /\ ~IsSet(fn'[ReceiveSlot(tag)])
                   /\ ~IsSet(fn'[TransmitSlot(tag)])
                   /\ \A t2 \in Tags \ {tag} :
                         /\ fn'[ReceiveSlot(t2)] = fn[ReceiveSlot(t2)]
                         /\ fn'[TransmitSlot(t2)] = fn[TransmitSlot(t2)]
      ]_vars

\* Both slots of Tag1 were cleared after use while the slots of Tag2 still
\* hold what was registered there, one of them having been run.
C7_Witness ==
    /\ hist[ReceiveSlot("Tag1")] = "cleared"
    /\ hist[TransmitSlot("Tag1")] = "cleared"
    /\ fn[ReceiveSlot("Tag2")].m_storage = <<"f", 0>>
    /\ fn[TransmitSlot("Tag2")].m_storage = <<"g", 1>>

(***************************************************************************)
(* Properties of the Uart wrapper.                                         *)
(***************************************************************************)

\* C8 as stated: a completion interrupt of an instance whose slot was not
\* cleared since its operation started runs the callable that was passed with
\* the operation that completes.
C8_CompletionRunsCallbackOfOperation ==
    [][\A u \in Uarts :
          /\ (HalTxComplete(u) /\ hist[TransmitSlot(UniqueTagT(u))] # "cleared")
                => /\ fn[TransmitSlot(UniqueTagT(u))].m_storage[1] = inflight[<<u, TxCplt>>]
                   /\ fn' = [fn EXCEPT ![TransmitSlot(UniqueTagT(u))].m_storage = Call(@)]
          /\ (HalRxComplete(u) /\ hist[ReceiveSlot(UniqueTagT(u))] # "cleared")
                => /\ fn[ReceiveSlot(UniqueTagT(u))].m_storage[1] = inflight[<<u, RxCplt>>]
                   /\ fn' = [fn EXCEPT ![ReceiveSlot(UniqueTagT(u))].m_storage = Call(@)]
      ]_vars

\* C9: the destruction of an instance unregisters both trampolines and leaves
\* both slots of the instance empty, and while the instance is destroyed no
\* step, a completion interrupt of an operation still in flight included,
\* runs or changes a callable of its slots.
C9_DestroyedInstanceRunsNothing ==
    [][\A u \in Uarts :
          /\ u \notin alive'
                => /\ ~registered'[<<u, TxCplt>>]
                   /\ ~registered'[<<u, RxCplt>>]
                   /\ ~IsSet(fn'[TransmitSlot(UniqueTagT(u))])
                   /\ ~IsSet(fn'[ReceiveSlot(UniqueTagT(u))])
          /\ (u \notin alive /\ u \notin alive')
                => /\ fn'[TransmitSlot(UniqueTagT(u))] = fn[TransmitSlot(UniqueTagT(u))]
                   /\ fn'[ReceiveSlot(UniqueTagT(u))] = fn[ReceiveSlot(UniqueTagT(u))]
      ]_vars

\* uart1 was destroyed while its transmission with callback f was in flight:
\* the slot that held f was cleared and the completion interrupt is still due.
C9_Witness ==
    /\ "uart1" \notin alive
    /\ hist[TransmitSlot("Tag1")] = "cleared"
    /\ inflight[<<"uart1", TxCplt>>] = "f"
    /\ ENABLED HalTxComplete("uart1")

\* C10 as stated: no callable stored in a slot has been run twice.
C10_StoredCallableRunsAtMostOnce ==
    \A s \in Slots : fn[s].m_storage[2] <= 1

(***************************************************************************)
(* Properties of a registration preempted by the interrupt, and of         *)
(* instances that share a unique tag.                                      *)
(***************************************************************************)

\* The statements of the registration before which the slot is torn: after
\* the old object was destroyed and before m_invoke is nulled, and after
\* m_invoke was copied and before the new object is relocated.
AfterDestroy == {"null_invoke"}

BeforeRelocate == {"copy_destroy", "copy_move", "relocate"}

\* C11: when the transmit-complete interrupt may be taken between the
\* statements of a registration, the slot can have a non-null m_invoke while
\* its buffer holds no live object of the matching type, and the trampoline
\* can then be called.  This is so whenever a pending callable was destroyed
\* and m_invoke is not yet nulled, and whenever the new m_invoke was copied and
\* the new object is not yet relocated; it is so at these statements only.
C11_SetIsTornUnderPreemption ==
    \A tag \in OneTag :
        LET s == TransmitSlot(tag) IN
        /\ Dangling(fn[s]) => (pc[2] = tag /\ pc[1] \in AfterDestroy \cup BeforeRelocate)
        /\ (pc[2] = tag /\ pc[1] \in AfterDestroy /\ hist[s] = "replaced")
              => (Dangling(fn[s]) /\ ENABLED TransmitCompleteInterrupt(tag))
        /\ (pc[2] = tag /\ pc[1] \in BeforeRelocate /\ hist[s] # "undefined_call")
              => (Dangling(fn[s]) /\ ENABLED TransmitCompleteInterrupt(tag))

\* The interrupt has called through the dangling m_invoke of the transmit
\* slot of Tag1 during a registration that has not yet relocated its callable.
C11_Witness ==
    /\ pc[1] = "relocate"
    /\ hist[TransmitSlot("Tag1")] = "undefined_call"
    /\ fn[TransmitSlot("Tag1")].m_invoke # Null

\* C12: two instances declared with the same unique-tag type use the same
\* slot for each purpose: a callback stored through one instance leaves the
\* slot of the other holding exactly that callback (what the other had stored
\* is gone), and a completion event of either instance runs what the shared
\* slot holds, which is the callback stored last.
C12_AliasedInstancesShareSlots ==
    [][\A u \in AliasedUarts : \A v \in AliasedUarts \ {u} :
          /\ \A c \in Callables :
                /\ UartTransmitSet(v, c)
                      => fn' = Holding(fn, TransmitSlot(UniqueTagT(u)), c)
                /\ UartReceiveToSet(v, c)
                      => fn' = Holding(fn, ReceiveSlot(UniqueTagT(u)), c)
          /\ (HalTxComplete(v) /\ registered[<<v, TxCplt>>]
                  /\ IsSet(fn[TransmitSlot(UniqueTagT(u))]))
                => fn' = [fn EXCEPT ![TransmitSlot(UniqueTagT(u))].m_storage = Call(@)]
          /\ (HalRxComplete(v) /\ registered[<<v, RxCplt>>]
                  /\ IsSet(fn[ReceiveSlot(UniqueTagT(u))]))
                => fn' = [fn EXCEPT ![ReceiveSlot(UniqueTagT(u))].m_storage = Call(@)]
      ]_vars

\* The transmission of uart1 that was passed f is in flight, uart2 has just
\* stored g over it, and the completion interrupt of uart1 is due.
C12_Witness ==
    /\ pc = <<TxCplt, "uart2", "g">>
    /\ inflight[<<"uart1", TxCplt>>] = "f"
    /\ hist[TransmitSlot("Tag1")] = "replaced"
    /\ fn[TransmitSlot("Tag1")].m_storage = <<"g", 0>>
    /\ ENABLED HalTxComplete("uart1")

(***************************************************************************)
(* Properties of Crc16.                                                    *)
(***************************************************************************)

\* C13: once the data was fed to Update in two chunks (either may be empty)
\* and finalized, the result equals Calculate of the concatenation of the two
\* chunks, for every configuration.
C13_StreamingEqualsWhole ==
    (crc.stage = "finalized" /\ Len(crc.chunks) = 2 /\ crc.fed = Len(crc.data))
        => /\ crc.final = Calculate(crc.cfg, crc.chunks[1] \o crc.chunks[2])
           /\ crc.final = crc.whole

\* X-25 over "1234" and then "56789".
C13_Witness ==
    /\ crc.stage = "finalized"
    /\ crc.cfg = Crc16X25
    /\ crc.chunks = <<SubSeq(CheckInput, 1, 4), SubSeq(CheckInput, 5, 9)>>
    /\ crc.final = crc.whole

\* C14: Crc16CcittFalse is polynomial 0x1021, init 0xFFFF, no reflection,
\* final XOR 0x0000, and its Calculate over "123456789" is 0x29B1.
C14_CcittFalseCheckValue ==
    /\ Crc16CcittFalse = Crc16(4129, 65535, 0, FALSE, FALSE)
    /\ (crc.calculated /\ crc.cfg = Crc16CcittFalse /\ crc.data = CheckInput)
          => crc.whole = 10673

C14_Witness ==
    /\ crc.calculated
    /\ crc.cfg = Crc16CcittFalse
    /\ crc.data = CheckInput
    /\ crc.whole = 10673

\* C15: Crc16Modbus is polynomial 0x8005, init 0xFFFF, input and output
\* reflection, final XOR 0x0000, and its Calculate over "123456789" is 0x4B37.
C15_ModbusCheckValue ==
    /\ Crc16Modbus = Crc16(32773, 65535, 0, TRUE, TRUE)
    /\ (crc.calculated /\ crc.cfg = Crc16Modbus /\ crc.data = CheckInput)
          => crc.whole = 19255

C15_Witness ==
    /\ crc.calculated
    /\ crc.cfg = Crc16Modbus
    /\ crc.data = CheckInput
    /\ crc.whole = 19255

\* C16: Calculate of an empty input accesses the table never and returns
\* Finalize(initial_value); for Crc16Xmodem that is 0x0000.
C16_EmptyInput ==
    (crc.calculated /\ Len(crc.data) = 0)
        => /\ crc.lookups = 0
           /\ crc.whole = Finalize(crc.cfg, crc.cfg.initial_value)
           /\ crc.cfg = Crc16Xmodem => crc.whole = 0

C16_Witness ==
    /\ crc.calculated
    /\ Len(crc.data) = 0
    /\ crc.cfg = Crc16Xmodem
    /\ crc.whole = 0

\* The catalogued check value of each named CRC.
CheckValue(cfg) ==
    CASE cfg = Crc16CcittFalse -> 10673
      [] cfg = Crc16Xmodem -> 12739
      [] cfg = Crc16Kermit -> 8585
      [] cfg = Crc16X25 -> 36974
      [] cfg = Crc16Modbus -> 19255
      [] cfg = Crc16Usb -> 46280
      [] cfg = Crc16Ibm -> 47933
      [] cfg = Crc16Dnp -> 60034

\* C17: each of the eight predefined variants computes the catalogued check
\* value of its CRC over "123456789": 0x29B1, 0x31C3, 0x2189, 0x906E, 0x4B37,
\* 0xB4C8, 0xBB3D and 0xEA82.
C17_PredefinedCheckValues ==
    (crc.calculated /\ crc.cfg \in PredefinedVariants /\ crc.data = CheckInput)
        => crc.whole = CheckValue(crc.cfg)

C17_Witness ==
    /\ crc.calculated
    /\ crc.cfg = Crc16Dnp
    /\ crc.data = CheckInput
    /\ crc.whole = 60034

\* v of the given width with its bits in the opposite order.
ReverseBits(v, width) ==
    LET rev[x \in Nat, k \in Nat, out \in Nat] ==
            IF k = 0 THEN out ELSE rev[x \div 2, k - 1, (2 * out) + (x % 2)]
    IN  rev[v, width, 0]

\* The parametric model: each byte, bit-reversed when reflect_input is set, is
\* divided MSB-first by the polynomial into a register loaded with
\* initial_value; the register is bit-reversed when reflect_output is set and
\* then XORed with final_xor.
ReferenceCrc(cfg, data) ==
    LET divide[reg \in Nat, k \in Nat] ==
            IF k = 0 THEN reg
            ELSE divide[IF reg >= 32768
                        THEN BitXor((2 * reg) % 65536, cfg.polynomial)
                        ELSE (2 * reg) % 65536,
                        k - 1]
        feed[reg \in Nat, i \in Nat] ==
            IF i > Len(data) THEN reg
            ELSE feed[divide[BitXor(reg, 256 * (IF cfg.reflect_input
                                                 THEN ReverseBits(data[i], 8)
                                                 ELSE data[i])), 8],
                      i + 1]
    IN  BitXor(IF cfg.reflect_output
               THEN ReverseBits(feed[cfg.initial_value, 1], 16)
               ELSE feed[cfg.initial_value, 1],
               cfg.final_xor)

\* C18 as stated: for every configuration, a non-palindromic initial value
\* included, Calculate returns what the parametric model defines.
C18_CalculateIsParametricModel ==
    crc.calculated => crc.whole = ReferenceCrc(crc.cfg, crc.data)

(***************************************************************************)
(* Properties of __ClampMessageLength and Adc::Get.                        *)
(***************************************************************************)

\* C19: the result is the smaller of size and the largest value of TargetT;
\* for std::uint16_t a size of at most 65535 is returned unchanged and every
\* larger size gives 65535.
C19_ClampIsMin ==
    len.done
        => /\ len.result = IF len.size <= NumericLimitsMax(len.TargetT)
                           THEN len.size ELSE NumericLimitsMax(len.TargetT)
           /\ len.TargetT = 16
                 => /\ len.size <= 65535 => len.result = len.size
                    /\ len.size > 65535 => len.result = 65535

\* 65537 bytes for a std::uint16_t length: 65535, where a cast gives 1.
C19_Witness ==
    /\ len.done
    /\ len.TargetT = 16
    /\ len.size = 65537
    /\ len.result = 65535

\* The attempt converted a sample.
Converted(attempt) == attempt.start = "HAL_OK" /\ attempt.poll = "HAL_OK"

\* r is the element of index floor(k/2) of the k samples in ascending order.
IsMiddle(r, samples) ==
    LET k == Len(samples) IN
    /\ \E j \in 1..k : samples[j] = r
    /\ Cardinality({j \in 1..k : samples[j] < r}) <= k \div 2
    /\ Cardinality({j \in 1..k : samples[j] <= r}) > k \div 2

\* C20: Get makes MedianFilterSize attempts; it returns 0 when none converted
\* a sample, and otherwise the middle (index floor(k/2)) of the ascending k
\* converted samples of the attempts whose start and poll both succeeded; the
\* ADC is never started while a conversion started earlier was not stopped,
\* and it is stopped when Get returns.
C20_GetHandlesPartialFailures ==
    [][/\ \A status \in StartStatuses : AdcStart(status) => ~adc.converting
       /\ AdcReturn
            => LET ok == SelectSeq(adc.log, Converted)
                   samples == [j \in 1..Len(ok) |-> ConvertToOutput(adc.cfg, ok[j].raw)]
               IN  /\ Len(adc.log) = adc.cfg.MedianFilterSize
                   /\ ~adc.converting
                   /\ IF Len(ok) = 0
                      THEN adc'.result = 0
                      ELSE IsMiddle(adc'.result, samples)
      ]_vars

\* Three attempts: the start of the first was refused, the other two converted
\* 4095 and 100; Get returned the upper of the two samples, 100.
C20_Witness ==
    /\ adc.at = "returned"
    /\ adc.cfg.MedianFilterSize = 3
    /\ adc.log = <<[start |-> "HAL_BUSY", poll |-> "none", raw |-> 0],
                   [start |-> "HAL_OK", poll |-> "HAL_OK", raw |-> 4095],
                   [start |-> "HAL_OK", poll |-> "HAL_OK", raw |-> 100]>>
    /\ adc.result = 100

(***************************************************************************)
(* Properties of the object lifetimes in __InplaceFunction.                *)
(***************************************************************************)

\* The three pointers of the data members f are all null or all non-null.
AllOrNone(f) ==
    \/ f.m_invoke = Null /\ f.m_destroy = Null /\ f.m_move = Null
    \/ f.m_invoke # Null /\ f.m_destroy # Null /\ f.m_move # Null

\* C21: between complete operations the invoke, destroy and relocate pointers
\* of every object are all null or all non-null, and they are non-null exactly
\* when the buffer holds a live callable object of the type they were
\* instantiated for.
C21_PointersMatchBuffer ==
    \A o \in Objects :
        /\ AllOrNone(fn[o])
        /\ fn[o].m_invoke # Null =>
              /\ Live(fn[o].m_invoke, fn[o].m_storage)
              /\ fn[o].m_destroy = fn[o].m_invoke
              /\ fn[o].m_move = fn[o].m_invoke
        /\ fn[o].m_invoke = Null => fn[o].m_storage = NoObj

C21_Witness ==
    /\ hist[LocalX] = "moved_from" /\ fn[LocalX] = EmptyFunction
    /\ hist[LocalY] = "moved_to" /\ fn[LocalY].m_storage = <<"f", 2>>
    /\ fn[LocalY].m_invoke = "LambdaF"

\* C22: every callable object constructed in a buffer is destroyed exactly
\* once.  No leak: an object whose lifetime has ended holds no live callable,
\* and Reset() of any object leaves its buffer empty, so that whatever a move
\* assignment or an assignment from a callable places goes into a buffer whose
\* old content was destroyed first.  No double destruction: m_destroy is set
\* exactly when the buffer holds a live object of its type, so a destroy
\* always finds the object it was instantiated for.
C22_DestroyedExactlyOnce ==
    \A o \in Objects :
        /\ hist[o] = "dead" => fn[o].m_storage = NoObj
        /\ fn[o].m_destroy # Null <=> fn[o].m_storage # NoObj
        /\ fn[o].m_destroy # Null => Live(fn[o].m_destroy, fn[o].m_storage)
        /\ \A G \in Reset(fn, o) : G[o].m_storage = NoObj
        /\ \A G \in Reset(fn, o) : Reset(G, o) = {G}

C22_Witness ==
    /\ hist[LocalX] = "dead" /\ fn[LocalX].m_storage = NoObj
    /\ hist[LocalY] = "callable" /\ fn[LocalY].m_storage = <<"g", 2>>

(***************************************************************************)
(* Properties of the Crc16 step and of the reflection helpers.             *)
(***************************************************************************)

\* Eight bitwise polynomial-division steps on the register reg after the byte
\* was XORed into it: MSB-first with the polynomial, or LSB-first with the
\* bit-reversed polynomial.
BitwiseStep(cfg, reg, byte) ==
    LET msb[r \in Nat, k \in Nat] ==
            IF k = 0 THEN r
            ELSE msb[IF r >= 32768
                     THEN BitXor((2 * r) % 65536, cfg.polynomial)
                     ELSE (2 * r) % 65536,
                     k - 1]
        lsb[r \in Nat, k \in Nat, reversed \in Nat] ==
            IF k = 0 THEN r
            ELSE lsb[IF r % 2 = 1
                     THEN BitXor(r \div 2, reversed)
                     ELSE r \div 2,
                     k - 1, reversed]
    IN  IF cfg.reflect_input
        THEN lsb[BitXor(reg, byte), 8, ReverseBits(cfg.polynomial, 16)]
        ELSE msb[BitXor(reg, byte * 256), 8]

\* C23: one table-driven step of Update equals eight bitwise division steps,
\* for each table, each register value and each input byte.
C23_TableStepIsEightBitSteps ==
    step.done => step.next = BitwiseStep(step.cfg, step.crc, step.byte)

C23_Witness ==
    /\ step.done
    /\ step.cfg = Crc16Dnp
    /\ step.crc = 42330
    /\ step.byte = 177
    /\ step.next # step.crc

\* C24: __Reflect8 and __Reflect16 reverse the bits of their argument, and
\* applying one twice gives the argument back.
C24_ReflectIsBitReversal ==
    /\ refl.at \in {"reflected", "twice"} =>
          refl.result = ReverseBits(refl.value, refl.width)
    /\ refl.at = "twice" => refl.again = refl.value

C24_Witness ==
    /\ refl.at = "twice"
    /\ refl.width = 8
    /\ refl.value = 176
    /\ refl.result = 13
    /\ refl.again = 176

(***************************************************************************)
(* Properties of Timer::SleepFor.                                          *)
(***************************************************************************)

C26_RunningCallableStaysIntact ==
    running.at = "body" => running.intact

\* The start of the non-blocking call for event ev of u returns a status other
\* than HAL_OK.
RejectedStart(u, ev) ==
    /\ pc[1] = ev /\ pc[2] = u
    /\ pc' = Idle
    /\ inflight' = inflight

\* C27: when the HAL rejects the start of a non-blocking call while an earlier
\* operation is in flight, the slot is as it was before the call: the
\* callable that was pending has not been replaced, and the callable of
\* the rejected call has not been stored for the completion to come.
C27_RejectedCallKeepsPendingCallback ==
    [][\A u \in Uarts, ev \in Events :
          (RejectedStart(u, ev) /\ inflight[<<u, ev>>] # NoOp) =>
              hist[SlotOf(u, ev)] \notin {"set", "replaced"}]_vars

\* The slot s holds after the step the callable it held before, called once
\* more, under the same three pointers.
HoldsSameCallable(s) ==
    /\ fn'[s].m_invoke = fn[s].m_invoke
    /\ fn'[s].m_destroy = fn[s].m_destroy
    /\ fn'[s].m_move = fn[s].m_move
    /\ fn'[s].m_storage = Call(fn[s].m_storage)

\* C28: a trampoline does not consume its slot: after it has run the callable
\* the slot holds the same callable, which the next trampoline call runs again.
C28_TrampolineKeepsSlot ==
    [][\A tag \in Tags :
          /\ (TransmitTrampoline(tag) /\ IsSet(fn[TransmitSlot(tag)])) =>
                 (HoldsSameCallable(TransmitSlot(tag)) /\ IsSet(fn'[TransmitSlot(tag)]))
          /\ (ReceiveTrampoline(tag) /\ IsSet(fn[ReceiveSlot(tag)])) =>
                 (HoldsSameCallable(ReceiveSlot(tag)) /\ IsSet(fn'[ReceiveSlot(tag)]))]_vars

C28_Witness ==
    /\ hist[ReceiveSlot("Tag2")] = "set"
    /\ fn[ReceiveSlot("Tag2")].m_storage = <<"f", 2>>
    /\ IsSet(fn[ReceiveSlot("Tag2")])

(***************************************************************************)
(* Properties of l298n_linear_motor.                                       *)
(***************************************************************************)
BothHigh == motor.m_forward_pin = High /\ motor.m_backward_pin = High

BothLow == motor.m_forward_pin = Low /\ motor.m_backward_pin = Low

\* C29: in no state of a constructed motor, the states between the two pin
\* writes of a call included, are the forward and the backward pin both High.
C29_PinsNeverBothHigh ==
    motor.object = "constructed" => ~BothHigh

\* C30: forward_for and backward_for drive their direction while SleepFor
\* waits, and when either has returned, and after the constructor and after
\* the destructor, both pins are Low.
C30_TimedMoveEndsStopped ==
    /\ (motor.call = "none"
        /\ motor.last \in {"forward_for", "backward_for", "constructor", "destructor"})
          => BothLow
    /\ (motor.call = "forward_for" /\ timer.at # "idle")
          => (motor.m_forward_pin = High /\ motor.m_backward_pin = Low)
    /\ (motor.call = "backward_for" /\ timer.at # "idle")
          => (motor.m_forward_pin = Low /\ motor.m_backward_pin = High)

C30_Witness ==
    /\ motor.call = "none"
    /\ motor.last = "forward_for"
    /\ motor.duration = AutoReload
    /\ timer.returned
    /\ BothLow

====
